---------------------------- MODULE Spec2Model ----------------------------
(***************************************************************************)
(* A model of destream's decode and encode protocols: the Error trait, the *)
(* Visitor trait with its default callbacks, the built-in FromStream       *)
(* implementations of src/de/impls.rs, the record visitor generated by     *)
(* destream_derive, and the built-in ToStream implementations of           *)
(* src/en/impls.rs with Encoder::collect_seq and collect_map.  The Decoder *)
(* and its cursors (SeqAccess, MapAccess, ArrayAccess) and the Encoder     *)
(* with its builders are the format's side of the protocol: they are the   *)
(* environment, and choose which callback to invoke, what a cursor holds   *)
(* and which call fails.                                                   *)
(***************************************************************************)
EXTENDS Integers, Sequences, FiniteSets, TLC

(***************************************************************************)
(* Bounds of the model.                                                    *)
(***************************************************************************)
\* longest sequence a SeqAccess cursor holds
MaxLen == 3
\* most entries a MapAccess cursor holds
MaxEntries == 2
\* most chunks an ArrayAccess cursor holds
MaxChunks == 2
\* largest arity of the fixed arrays and tuples decoded (the source goes to 32 / 16)
MaxArity == 2
\* deepest nesting of from_stream calls through visit_some
MaxDepth == 1
\* a size hint between the extremes, and one beyond the 4096 cap
HintMid == 2
HintHuge == 5000

(***************************************************************************)
(* Values.  Every value is a record of the same four fields, so that any   *)
(* two values can be compared: a tag, a static text, a sequence of         *)
(* naturals (the bytes of an integer, little-endian; the characters of a   *)
(* String) and a sequence of sub-values.                                   *)
(***************************************************************************)
V(tag, text, bits, items) == [tag |-> tag, text |-> text, bits |-> bits, items |-> items]

Rep(b, n) == [i \in 1..n |-> b]

\* a &'static str, possibly completed by a number (concat!("...", $len))
Str(text) == V("str", text, <<>>, <<>>)
StrN(text, n) == V("str", text, <<n>>, <<>>)

IntWidths == [i8 |-> 1, i16 |-> 2, i32 |-> 4, i64 |-> 8, u8 |-> 1, u16 |-> 2, u32 |-> 4, u64 |-> 8]
SignedTypes == {"i8", "i16", "i32", "i64"}
UnsignedTypes == {"u8", "u16", "u32", "u64"}
IntTypes == SignedTypes \cup UnsignedTypes
FloatTypes == {"f32", "f64"}

IntV(ty, bytes) == V(ty, "", bytes, <<>>)

\* Sample bit patterns per width (two's complement, little-endian bytes): 5,
\* the largest signed value, the smallest one, -1 (all ones) and, from two
\* bytes on, 128, which one byte cannot hold as a signed value.
Patterns(w) ==
    { <<5>> \o Rep(0, w - 1), Rep(255, w - 1) \o <<127>>, Rep(0, w - 1) \o <<128>>, Rep(255, w) }
    \cup (IF w > 1 THEN { <<128>> \o Rep(0, w - 1) } ELSE {})

IntValues(ty) == { IntV(ty, p) : p \in Patterns(IntWidths[ty]) }
BoolValues == { V("bool", "", <<0>>, <<>>), V("bool", "", <<1>>, <<>>) }
\* floats: the sign, exponent and fraction are kept as written, not as IEEE bits
FloatValues(ty) == { V(ty, "", <<0, 0, 0>>, <<>>), V(ty, "", <<1, 1, 23>>, <<>>) }

\* Strings are sequences of character codes.
Ch == [underscore |-> 95, a |-> 97, b |-> 98, c |-> 99, d |-> 100, e |-> 101, x |-> 120]
StringV(chars) == V("String", "", chars, <<>>)
StringValues == { StringV(<<Ch.a>>), StringV(<<Ch.d, Ch.underscore, Ch.e>>) }

None == V("None", "", <<>>, <<>>)
Some(v) == V("Some", "", <<>>, <<v>>)
Unit == V("unit", "", <<>>, <<>>)
PhantomDataV == V("PhantomData", "", <<>>, <<>>)
IgnoredAnyV == V("IgnoredAny", "", <<>>, <<>>)

(***************************************************************************)
(* Numeric casts of the default callbacks: `v as i64` sign-extends, and    *)
(* `v as u64` zero-extends, the bytes of the narrower integer.             *)
(***************************************************************************)
ZeroExtend(bytes, w) == bytes \o Rep(0, w - Len(bytes))

SignExtend(bytes, w) ==
    bytes \o Rep(IF bytes[Len(bytes)] >= 128 THEN 255 ELSE 0, w - Len(bytes))

\* a cast that pads with zero bytes whatever the sign
AsI64_zero_extended(v) == IntV("i64", ZeroExtend(v.bits, 8))

AsI64(v) == IntV("i64", SignExtend(v.bits, 8))

AsU64(v) == IntV("u64", ZeroExtend(v.bits, 8))

AsF64(v) == V("f64", "", v.bits, <<>>)

(***************************************************************************)
(* The number a bit pattern stands for, as its shortest pattern: a signed  *)
(* pattern loses the top bytes that only repeat its sign, an unsigned one  *)
(* its top zero bytes.  Two patterns of one signedness are the same number *)
(* exactly when their shortest patterns are equal.                         *)
(***************************************************************************)
RECURSIVE CanonSigned(_)
CanonSigned(bytes) ==
    LET n == Len(bytes) IN
    IF n > 1 /\ ( (bytes[n] = 0 /\ bytes[n - 1] < 128)
               \/ (bytes[n] = 255 /\ bytes[n - 1] >= 128) )
    THEN CanonSigned(SubSeq(bytes, 1, n - 1))
    ELSE bytes

RECURSIVE CanonUnsigned(_)
CanonUnsigned(bytes) ==
    LET n == Len(bytes) IN
    IF n > 1 /\ bytes[n] = 0 THEN CanonUnsigned(SubSeq(bytes, 1, n - 1)) ELSE bytes

Number(v) ==
    IF v.tag \in SignedTypes THEN <<"signed", CanonSigned(v.bits)>>
    ELSE <<"unsigned", CanonUnsigned(v.bits)>>

(***************************************************************************)
(* Results.  `calls` lists the Error-trait methods run to build an error.  *)
(***************************************************************************)
Ok(v) == [kind |-> "Ok", val |-> v, calls |-> <<>>]
Pending == [kind |-> "Pending", val |-> Unit, calls |-> <<>>]
\* a visitor that has not returned: the pull it makes next
Await(op) == [kind |-> "Pending", val |-> Str(op), calls |-> <<>>]
Panic(text) == [kind |-> "Panic", val |-> Str(text), calls |-> <<>>]

(***************************************************************************)
(* trait Error: `custom` is the one required method; the others format     *)
(* their arguments and pass the message to it.                             *)
(***************************************************************************)
ErrorMethods == {"custom", "invalid_type", "invalid_value", "invalid_length"}

\* fmt::Display of a callback argument or of a &str
Display(v) ==
    IF v.tag \in IntTypes THEN V("display", Number(v)[1], Number(v)[2], <<>>)
    ELSE IF v.tag = "str" THEN v
    ELSE V("display", v.tag, v.bits, <<>>)

DisplayLen(n) == V("display", "unsigned", <<n>>, <<>>)

custom(msg) == [kind |-> "Err", val |-> V("custom", "", <<>>, msg), calls |-> <<"custom">>]

Via(method, r) == [r EXCEPT !.calls = <<method>> \o @]

invalid_type(unexp, exp) ==
    Via("invalid_type",
        custom(<<Str("invalid type: "), Display(unexp), Str(", expected "), Display(exp)>>))

invalid_value(unexp, exp) ==
    Via("invalid_value",
        custom(<<Str("invalid value: "), Display(unexp), Str(", expected "), Display(exp)>>))

invalid_length(len, exp) ==
    Via("invalid_length",
        custom(<<Str("invalid length: "), DisplayLen(len), Str(", expected "), Display(exp)>>))

\* the parts of a message built by one of the three formatting methods
ErrKind(r) == IF r.kind = "Err" /\ Len(r.val.items) = 4 THEN r.val.items[1].text ELSE ""
ErrFound(r) == r.val.items[2]
ErrExpected(r) == r.val.items[4]

(***************************************************************************)
(* Types that implement FromStream.  A type is a name and a number: the    *)
(* arity of an array or tuple, the bytes of a pointer for isize / usize.   *)
(***************************************************************************)
T(n, len) == [n |-> n, len |-> len]

AutoTypes == {"bool"} \cup IntTypes \cup FloatTypes \cup {"String"}
SeqTypes == {"BinaryHeap", "BTreeSet", "LinkedList", "HashSet", "VecDeque", "Vec", "SmallVec"}
OrderedSeqTypes == {"LinkedList", "VecDeque", "Vec", "SmallVec"}
MapTypes == {"BTreeMap", "HashMap"}
\* visitors written against the Visitor trait by a user of the library: one that
\* overrides visit_i64 alone, one visit_u64 alone, one nothing
UserTypes == {"WideSigned", "WideUnsigned", "Bare"}

BuiltinTypes ==
    { T(n, 0) : n \in AutoTypes \cup SeqTypes \cup MapTypes
                      \cup {"Option", "PhantomData", "()", "Bytes", "Uuid", "IgnoredAny"} }
    \cup { T(n, w) : n \in {"isize", "usize"}, w \in {4, 8} }
    \cup { T("Array", k) : k \in 0..MaxArity }
    \cup { T("Tuple", k) : k \in 1..MaxArity }

\* the struct of destream_derive/tests/integration.rs
DerivedTypes == { T("Foo", 0) }

Types == BuiltinTypes \cup DerivedTypes \cup { T(n, 0) : n \in UserTypes }

\* Context = T::Context for Option<T>, the sequence collections and [T; N];
\* every other implementation fixes Context = ()
UnitContext == "()"
Contexts == {"()", "cx"}
GenericContext(t) == t.n \in {"Option", "Array"} \cup (SeqTypes \ {"SmallVec"})
ContextsOf(t) == IF GenericContext(t) THEN Contexts ELSE {UnitContext}

(***************************************************************************)
(* Visitors.                                                               *)
(***************************************************************************)
Vis(name, of, len) == [name |-> name, of |-> of, len |-> len]

\* the visitor a from_stream hands to the decoder
VisitorOf(t) ==
    CASE t.n \in AutoTypes -> Vis("AutoVisitor", t.n, 0)
      [] t.n = "isize" -> Vis("AutoVisitor", "i64", 0)
      [] t.n = "usize" -> Vis("AutoVisitor", "u64", 0)
      [] t.n = "Option" -> Vis("OptionVisitor", "", 0)
      [] t.n = "PhantomData" -> Vis("PhantomDataVisitor", "", 0)
      [] t.n \in SeqTypes -> Vis("SeqVisitor", t.n, 0)
      [] t.n = "Array" -> Vis("ArrayVisitor", "", t.len)
      [] t.n = "Tuple" -> Vis("TupleVisitor", "", t.len)
      [] t.n \in MapTypes -> Vis("MapVisitor", t.n, 0)
      [] t.n = "()" -> Vis("UnitVisitor", "", 0)
      [] t.n = "Bytes" -> Vis("BytesVisitor", "", 0)
      [] t.n = "Uuid" -> Vis("UuidVisitor", "", 0)
      [] t.n = "IgnoredAny" -> Vis("IgnoredAny", "", 0)
      [] t.n = "Foo" -> Vis("Visitor", "Foo", 0)
      [] OTHER -> Vis(t.n, "", 0)

\* Visitor::expecting
expecting(vis) ==
    CASE vis.name = "AutoVisitor" -> Str(vis.of)
      [] vis.name = "OptionVisitor" -> Str("\"optional {}\", std::any::type_name::<T>()")
      [] vis.name = "PhantomDataVisitor" -> Str("unit")
      [] vis.name = "SeqVisitor" /\ vis.of = "SmallVec" -> Str("a stack-allocated sequence")
      [] vis.name = "SeqVisitor" /\ vis.of # "SmallVec" -> Str("a sequence")
      [] vis.name = "ArrayVisitor" /\ vis.len = 0 -> Str("a zero-length tuple")
      [] vis.name = "ArrayVisitor" /\ vis.len # 0 -> StrN("an array of length ", vis.len)
      [] vis.name = "TupleVisitor" -> StrN("a tuple of size ", vis.len)
      [] vis.name = "MapVisitor" -> Str("a map")
      [] vis.name = "UnitVisitor" -> Str("a unit value ()")
      [] vis.name = "BytesVisitor" -> Str("bytes")
      [] vis.name = "UuidVisitor" -> Str("a Uuid")
      [] vis.name = "IgnoredAny" -> Str("anything at all")
      [] vis.name = "Visitor" -> Str(vis.of)
      [] OTHER -> Str(vis.name)

ArrayCallbacks ==
    { "visit_array_bool", "visit_array_i8", "visit_array_i16", "visit_array_i32",
      "visit_array_i64", "visit_array_u8", "visit_array_u16", "visit_array_u32",
      "visit_array_u64", "visit_array_f32", "visit_array_f64" }

\* what the default visit_array_* reports as found
ArrayFound ==
    [ visit_array_bool |-> "boolean array", visit_array_i8 |-> "i8 array",
      visit_array_i16 |-> "i16 array", visit_array_i32 |-> "i32 array",
      visit_array_i64 |-> "i64 array", visit_array_u8 |-> "u8 array",
      visit_array_u16 |-> "u16 array", visit_array_u32 |-> "u32 array",
      visit_array_u64 |-> "u64 array", visit_array_f32 |-> "f32 array",
      visit_array_f64 |-> "f64 array" ]

\* the callbacks that take a plain value (or nothing) and return at once
ValueCallbacks ==
    { "visit_bool", "visit_i8", "visit_i16", "visit_i32", "visit_i64", "visit_u8",
      "visit_u16", "visit_u32", "visit_u64", "visit_f32", "visit_f64", "visit_string",
      "visit_unit", "visit_none" }

Callbacks == ValueCallbacks \cup ArrayCallbacks \cup {"visit_some", "visit_map", "visit_seq"}

\* the callback of the autodecode! visitor of a type
VisitMethod ==
    [ bool |-> "visit_bool", i8 |-> "visit_i8", i16 |-> "visit_i16", i32 |-> "visit_i32",
      i64 |-> "visit_i64", u8 |-> "visit_u8", u16 |-> "visit_u16", u32 |-> "visit_u32",
      u64 |-> "visit_u64", f32 |-> "visit_f32", f64 |-> "visit_f64",
      String |-> "visit_string" ]

\* the type of the argument of a value callback
ArgType ==
    [ visit_bool |-> "bool", visit_i8 |-> "i8", visit_i16 |-> "i16", visit_i32 |-> "i32",
      visit_i64 |-> "i64", visit_u8 |-> "u8", visit_u16 |-> "u16", visit_u32 |-> "u32",
      visit_u64 |-> "u64", visit_f32 |-> "f32", visit_f64 |-> "f64",
      visit_string |-> "String", visit_unit |-> "unit", visit_none |-> "unit" ]

\* the arguments a decoder can pass to a value callback
ArgValues(cb) ==
    LET ty == ArgType[cb] IN
    CASE ty = "bool" -> BoolValues
      [] ty \in IntTypes -> IntValues(ty)
      [] ty \in FloatTypes -> FloatValues(ty)
      [] ty = "String" -> StringValues
      [] OTHER -> {Unit}

\* the callbacks a visitor implements itself
Overrides(vis) ==
    CASE vis.name = "AutoVisitor" -> {VisitMethod[vis.of]}
      [] vis.name = "OptionVisitor" -> {"visit_unit", "visit_none", "visit_some"}
      [] vis.name = "PhantomDataVisitor" -> {"visit_unit"}
      [] vis.name \in {"SeqVisitor", "ArrayVisitor", "TupleVisitor"} -> {"visit_seq"}
      [] vis.name = "MapVisitor" -> {"visit_map"}
      [] vis.name = "UnitVisitor" -> {"visit_unit", "visit_none"}
      [] vis.name = "BytesVisitor" -> {"visit_array_u8", "visit_string", "visit_seq"}
      [] vis.name = "UuidVisitor" -> {"visit_array_u8", "visit_string", "visit_seq"}
      [] vis.name = "IgnoredAny" ->
            { "visit_bool", "visit_i64", "visit_u64", "visit_f64", "visit_string",
              "visit_none", "visit_some", "visit_unit", "visit_seq", "visit_map" }
      [] vis.name = "Visitor" -> {"visit_map"}
      [] vis.name = "WideSigned" -> {"visit_i64"}
      [] vis.name = "WideUnsigned" -> {"visit_u64"}
      [] OTHER -> {}

(***************************************************************************)
(* The value callbacks of trait Visitor.  `ext` is the answer of a library *)
(* outside this repository (base64, uuid) that an override consults.       *)
(***************************************************************************)
\* the body of a callback a visitor implements itself
Override(vis, cb, v, ext) ==
    CASE vis.name = "AutoVisitor" -> Ok(v)
      [] vis.name = "OptionVisitor" -> Ok(None)
      [] vis.name = "PhantomDataVisitor" -> Ok(PhantomDataV)
      [] vis.name = "UnitVisitor" -> Ok(Unit)
      [] vis.name = "BytesVisitor" ->
            IF ext THEN Ok(V("Bytes", "base64", v.bits, <<>>))
            ELSE invalid_value(v, Str("a base64-encoded string"))
      [] vis.name = "UuidVisitor" ->
            IF ext THEN Ok(V("Uuid", "parsed", v.bits, <<>>))
            ELSE invalid_value(v, expecting(vis))
      [] vis.name = "IgnoredAny" -> Ok(IgnoredAnyV)
      [] OTHER -> Ok(V(vis.name, cb, v.bits, <<>>))

visit_bool(vis, v, ext) ==
    IF "visit_bool" \in Overrides(vis) THEN Override(vis, "visit_bool", v, ext)
    ELSE invalid_type(v, expecting(vis))

visit_i64(vis, v, ext) ==
    IF "visit_i64" \in Overrides(vis) THEN Override(vis, "visit_i64", v, ext)
    ELSE invalid_type(v, expecting(vis))

visit_i8(vis, v, ext) ==
    IF "visit_i8" \in Overrides(vis) THEN Override(vis, "visit_i8", v, ext)
    ELSE visit_i64(vis, AsI64(v), ext)

visit_i16(vis, v, ext) ==
    IF "visit_i16" \in Overrides(vis) THEN Override(vis, "visit_i16", v, ext)
    ELSE visit_i64(vis, AsI64(v), ext)

visit_i32(vis, v, ext) ==
    IF "visit_i32" \in Overrides(vis) THEN Override(vis, "visit_i32", v, ext)
    ELSE visit_i64(vis, AsI64(v), ext)

visit_u64(vis, v, ext) ==
    IF "visit_u64" \in Overrides(vis) THEN Override(vis, "visit_u64", v, ext)
    ELSE invalid_type(v, expecting(vis))

visit_u8(vis, v, ext) ==
    IF "visit_u8" \in Overrides(vis) THEN Override(vis, "visit_u8", v, ext)
    ELSE visit_u64(vis, AsU64(v), ext)

visit_u16(vis, v, ext) ==
    IF "visit_u16" \in Overrides(vis) THEN Override(vis, "visit_u16", v, ext)
    ELSE visit_u64(vis, AsU64(v), ext)

visit_u32(vis, v, ext) ==
    IF "visit_u32" \in Overrides(vis) THEN Override(vis, "visit_u32", v, ext)
    ELSE visit_u64(vis, AsU64(v), ext)

visit_f64(vis, v, ext) ==
    IF "visit_f64" \in Overrides(vis) THEN Override(vis, "visit_f64", v, ext)
    ELSE invalid_type(v, expecting(vis))

visit_f32(vis, v, ext) ==
    IF "visit_f32" \in Overrides(vis) THEN Override(vis, "visit_f32", v, ext)
    ELSE visit_f64(vis, AsF64(v), ext)

visit_string(vis, v, ext) ==
    IF "visit_string" \in Overrides(vis) THEN Override(vis, "visit_string", v, ext)
    ELSE invalid_type(v, expecting(vis))

visit_unit(vis, v, ext) ==
    IF "visit_unit" \in Overrides(vis) THEN Override(vis, "visit_unit", v, ext)
    ELSE invalid_type(Str("unit"), expecting(vis))

\* a default that reports the wrong kind of error
visit_none_invalid_value(vis, v, ext) ==
    IF "visit_none" \in Overrides(vis) THEN Override(vis, "visit_none", v, ext)
    ELSE invalid_value(Str("Option::None"), expecting(vis))

visit_none(vis, v, ext) ==
    IF "visit_none" \in Overrides(vis) THEN Override(vis, "visit_none", v, ext)
    ELSE invalid_type(Str("Option::None"), expecting(vis))

\* the default of visit_some, visit_map, visit_seq and visit_array_*
AsyncFound(cb) ==
    CASE cb = "visit_some" -> "Option::Some"
      [] cb = "visit_map" -> "map"
      [] cb = "visit_seq" -> "sequence"
      [] OTHER -> ArrayFound[cb]

visit_default(vis, cb) == invalid_type(Str(AsyncFound(cb)), expecting(vis))

\* the decoder invokes value callback `cb` of `vis`
Visit(vis, cb, v, ext) ==
    CASE cb = "visit_bool" -> visit_bool(vis, v, ext)
      [] cb = "visit_i8" -> visit_i8(vis, v, ext)
      [] cb = "visit_i16" -> visit_i16(vis, v, ext)
      [] cb = "visit_i32" -> visit_i32(vis, v, ext)
      [] cb = "visit_i64" -> visit_i64(vis, v, ext)
      [] cb = "visit_u8" -> visit_u8(vis, v, ext)
      [] cb = "visit_u16" -> visit_u16(vis, v, ext)
      [] cb = "visit_u32" -> visit_u32(vis, v, ext)
      [] cb = "visit_u64" -> visit_u64(vis, v, ext)
      [] cb = "visit_f32" -> visit_f32(vis, v, ext)
      [] cb = "visit_f64" -> visit_f64(vis, v, ext)
      [] cb = "visit_string" -> visit_string(vis, v, ext)
      [] cb = "visit_unit" -> visit_unit(vis, v, ext)
      [] cb = "visit_none" -> visit_none(vis, v, ext)

(***************************************************************************)
(* from_stream: the hint each implementation issues, and what it does with *)
(* the decoder's answer before returning it.                               *)
(***************************************************************************)
Hint(name, args) == [hint |-> name, args |-> args]

DecodeMethod ==
    [ bool |-> "decode_bool", i8 |-> "decode_i8", i16 |-> "decode_i16", i32 |-> "decode_i32",
      i64 |-> "decode_i64", u8 |-> "decode_u8", u16 |-> "decode_u16", u32 |-> "decode_u32",
      u64 |-> "decode_u64", f32 |-> "decode_f32", f64 |-> "decode_f64",
      String |-> "decode_string" ]

\* every hint of trait Decoder
DecoderHints ==
    { Hint(DecodeMethod[n], <<>>) : n \in AutoTypes }
    \cup { Hint(h, <<>>) : h \in { "decode_any", "decode_bytes", "decode_map", "decode_option",
                                    "decode_seq", "decode_unit", "decode_uuid",
                                    "decode_ignored_any" } }
    \cup { Hint("decode_array_" \o n, <<>>) : n \in {"bool"} \cup IntTypes \cup FloatTypes }
    \cup { Hint("decode_tuple", <<k>>) : k \in 0..MaxArity }

\* a fixed array or tuple hinted as a sequence of any length
TupleHint_seq(t) == Hint("decode_seq", <<>>)

\* decoder.decode_tuple($len, ...) of the fixed arrays and tuples
TupleHint(t) == Hint("decode_tuple", <<t.len>>)

\* the hint the from_stream of a built-in or derived type issues
HintOf(t) ==
    CASE t.n \in AutoTypes -> Hint(DecodeMethod[t.n], <<>>)
      [] t.n = "isize" -> Hint("decode_i64", <<>>)
      [] t.n = "usize" -> Hint("decode_u64", <<>>)
      [] t.n = "Option" -> Hint("decode_option", <<>>)
      [] t.n = "PhantomData" -> Hint("decode_unit", <<>>)
      [] t.n \in SeqTypes -> Hint("decode_seq", <<>>)
      [] t.n \in {"Array", "Tuple"} -> TupleHint(t)
      [] t.n \in MapTypes -> Hint("decode_map", <<>>)
      [] t.n = "()" -> Hint("decode_unit", <<>>)
      [] t.n = "Bytes" -> Hint("decode_bytes", <<>>)
      [] t.n = "Uuid" -> Hint("decode_uuid", <<>>)
      [] t.n = "IgnoredAny" -> Hint("decode_ignored_any", <<>>)
      [] t.n = "Foo" -> Hint("decode_map", <<>>)

\* a user's from_stream issues the hint it likes
HintsOf(t) ==
    CASE t.n = "WideSigned" -> { Hint(DecodeMethod[n], <<>>) : n \in SignedTypes }
      [] t.n = "WideUnsigned" -> { Hint(DecodeMethod[n], <<>>) : n \in UnsignedTypes }
      [] t.n = "Bare" -> { Hint("decode_any", <<>>) }
      [] OTHER -> {HintOf(t)}

\* what a from_stream does to the decoder's answer
Cont(k, len) == [k |-> k, len |-> len]

ContsOf(t) ==
    IF t.n \in {"isize", "usize"} THEN <<Cont("try_into_" \o t.n, t.len)>> ELSE <<>>

\* n.try_into().map_err(Error::custom), to a pointer of `w` bytes
try_into(r, k, w) ==
    LET short == IF k = "try_into_isize" THEN CanonSigned(r.val.bits)
                 ELSE CanonUnsigned(r.val.bits)
    IN  IF Len(short) <= w
        THEN Ok(IntV(IF k = "try_into_isize" THEN "isize" ELSE "usize", SubSeq(r.val.bits, 1, w)))
        ELSE custom(<<Str("out of range integral type conversion attempted")>>)

ApplyCont(c, r) ==
    IF r.kind # "Ok" THEN r
    ELSE IF c.k = "map_ok_Some" THEN Ok(Some(r.val))
    ELSE IF c.k = "ignored_some" THEN r
    ELSE try_into(r, c.k, c.len)

\* the answer of the innermost from_stream, passed up to the first caller
RECURSIVE Unwind(_, _)
Unwind(cs, r) == IF cs = <<>> THEN r ELSE Unwind(Tail(cs), ApplyCont(Head(cs), r))

(***************************************************************************)
(* Cursors.  A cursor is the decoder's: it holds what the stream holds,    *)
(* the number of pulls made so far, the pull at which the stream fails     *)
(* (0: at none) and the size hint it reports (<<>>: None, <<n>>: Some(n)). *)
(***************************************************************************)
Elem(i) == V("elem", "", <<i>>, <<>>)
Elems == { Elem(i) : i \in 1..2 }
Entry(k, v) == V("entry", "", <<>>, <<k, v>>)

SeqsUpTo(S, n) == UNION { [1..k -> S] : k \in 0..n }
SizeHints == { <<>>, <<HintMid>>, <<HintHuge>> }

\* what the decoder's cursor may hold and report, by the visitor it is given to:
\* the visitors of collections meet every size hint, the others (which never
\* ask for it) none; UuidVisitor, which wants four elements, meets up to five
SizeHintsFor(vis) == IF vis.name \in {"SeqVisitor", "MapVisitor"} THEN SizeHints ELSE {<<>>}
SeqStreams(vis) ==
    IF vis.name = "UuidVisitor" THEN SeqsUpTo({Elem(1)}, 5) ELSE SeqsUpTo(Elems, MaxLen)

Cursor(kind, items, failAt, hint) ==
    [kind |-> kind, items |-> items, pos |-> 0, keys |-> 0, failAt |-> failAt, hint |-> hint]
NoCursor == Cursor("none", <<>>, 0, <<>>)

\* the field keys a record's map may hold: those of the test's JSON text, the
\* spelling `de` and a key that names no field
KeyStrings ==
    { StringV(<<Ch.a>>), StringV(<<Ch.b>>), StringV(<<Ch.c>>), StringV(<<Ch.d, Ch.underscore, Ch.e>>),
      StringV(<<Ch.d, Ch.e>>), StringV(<<Ch.x>>) }
\* the i-th value of a map is its own
Val(i) == V("val", "", <<i>>, <<>>)
EntriesOf(ks) == [i \in DOMAIN ks |-> Entry(ks[i], Val(i))]
MapStreams(vis) ==
    { EntriesOf(ks) : ks \in SeqsUpTo(IF vis.name = "Visitor" THEN KeyStrings ELSE Elems, MaxEntries) }

BUF_SIZE == 4096
UuidBytes == 16
\* the i-th chunk of an array holds n values
Chunk(i, n) == V("chunk", "", <<i, n>>, <<>>)
BufferLen(vis) == IF vis.name = "UuidVisitor" THEN UuidBytes ELSE BUF_SIZE
ChunksOf(ns) == [i \in DOMAIN ns |-> Chunk(i, ns[i])]
ArrayStreams(vis) == { ChunksOf(ns) : ns \in SeqsUpTo({1, BufferLen(vis)}, MaxChunks) }

Pull(op, c, res, val) == [op |-> op, ctx |-> c, res |-> res, val |-> val]
CursorError(i) == V("custom", "cursor", <<i>>, <<>>)
Failed(p) == [kind |-> "Err", val |-> p.val, calls |-> <<>>]

\* SeqAccess::next_element, as the stream answers the cursor's next pull
next_element(cur, c) ==
    LET i == cur.pos + 1 IN
    IF cur.failAt = i THEN Pull("next_element", c, "err", CursorError(i))
    ELSE IF i <= Len(cur.items) THEN Pull("next_element", c, "some", cur.items[i])
    ELSE Pull("next_element", c, "none", Unit)

\* MapAccess::next_key: the key of the next entry, if one is left
next_key(cur, c) ==
    LET i == cur.pos + 1 IN
    IF cur.failAt = i THEN Pull("next_key", c, "err", CursorError(i))
    ELSE IF cur.keys < Len(cur.items) THEN Pull("next_key", c, "some", cur.items[cur.keys + 1].items[1])
    ELSE Pull("next_key", c, "none", Unit)

\* MapAccess::next_value: the value of the entry whose key was pulled last
next_value(cur, c) ==
    LET i == cur.pos + 1 IN
    IF cur.failAt = i THEN Pull("next_value", c, "err", CursorError(i))
    ELSE Pull("next_value", c, "some", cur.items[cur.keys].items[2])

\* ArrayAccess::buffer: the next chunk, or none (a count of 0) at the end
buffer(cur) ==
    LET i == cur.pos + 1 IN
    IF cur.failAt = i THEN Pull("buffer", UnitContext, "err", CursorError(i))
    ELSE IF i <= Len(cur.items) THEN Pull("buffer", UnitContext, "some", cur.items[i])
    ELSE Pull("buffer", UnitContext, "none", Chunk(i, 0))

\* The contents of a buffer, as runs of values: `len` values of the chunk that
\* call `src` of buffer wrote, from its `off`-th on (src 0: the zeros the
\* buffer was created with).
Run(src, off, len) == V("run", "", <<src, off, len>>, <<>>)

RECURSIVE Size(_)
Size(runs) == IF runs = <<>> THEN 0 ELSE Head(runs).bits[3] + Size(Tail(runs))

\* &buf[..n]
RECURSIVE TakeRuns(_, _)
TakeRuns(runs, n) ==
    IF n = 0 \/ runs = <<>> THEN <<>>
    ELSE LET r == Head(runs) IN
         IF r.bits[3] <= n THEN <<r>> \o TakeRuns(Tail(runs), n - r.bits[3])
         ELSE <<Run(r.bits[1], r.bits[2], n)>>

\* &buf[n..]
RECURSIVE DropRuns(_, _)
DropRuns(runs, n) ==
    IF n = 0 \/ runs = <<>> THEN runs
    ELSE LET r == Head(runs) IN
         IF r.bits[3] <= n THEN DropRuns(Tail(runs), n - r.bits[3])
         ELSE <<Run(r.bits[1], r.bits[2] + n, r.bits[3] - n)>> \o Tail(runs)

\* what ArrayAccess::buffer leaves in the buffer b it was given: the values
\* written, then what b held behind them
Written(p, b) ==
    IF p.res = "some" THEN <<Run(p.val.bits[1], 0, p.val.bits[2])>> \o DropRuns(b, p.val.bits[2])
    ELSE b

\* SeqAccess::size_hint / MapAccess::size_hint
size_hint(cur) == cur.hint

CautiousCap == 4096

\* size_hint::cautious
cautious(hint) ==
    LET n == IF hint = <<>> THEN 0 ELSE hint[1] IN
    IF n < CautiousCap THEN n ELSE CautiousCap

(***************************************************************************)
(* visit_seq of the built-in visitors, one pull at a time: from the        *)
(* values gathered so far and the answer to the pull, the values gathered  *)
(* next and what the visitor returns (Await: it pulls again).              *)
(***************************************************************************)
Step(a, ret) == [acc |-> a, ret |-> ret]

Range(f) == { f[i] : i \in DOMAIN f }

\* an insert at the front of the collection
Insert_front(of, a, v) == <<v>> \o a

\* $insert of decode_seq!: push / push_back / insert
Insert(of, a, v) ==
    LET before == SelectSeq(a, LAMBDA x : x.bits[1] < v.bits[1])
        after == SelectSeq(a, LAMBDA x : x.bits[1] >= v.bits[1])
    IN  CASE of \in OrderedSeqTypes -> Append(a, v)
          [] of = "BinaryHeap" -> before \o <<v>> \o after
          [] of \in {"BTreeSet", "HashSet"} ->
                IF v \in Range(a) THEN a ELSE before \o <<v>> \o after

\* a new, empty collection with room for n values
Empty(n) == [cap |-> n, items |-> <<>>]

\* $with_capacity of decode_seq! and decode_map!, and the SmallVec visitor's own
with_capacity(of, cur) ==
    CASE of \in {"BinaryHeap", "HashSet", "VecDeque", "Vec", "HashMap"} ->
            Empty(cautious(size_hint(cur)))
      [] of = "SmallVec" -> Empty(IF size_hint(cur) = <<>> THEN 0 ELSE size_hint(cur)[1])
      [] OTHER -> Empty(0)

\* a collection that starts with as many placeholder values as the hint (capped) says
visit_seq_init_filled(vis, cur) ==
    [cap |-> cautious(size_hint(cur)), items |-> [i \in 1..cautious(size_hint(cur)) |-> Elem(1)]]

\* what a visit_seq holds before its first pull
visit_seq_init(vis, cur) ==
    IF vis.name = "SeqVisitor" THEN with_capacity(vis.of, cur) ELSE Empty(0)

\* a loop that ends at the first pull that is not an element, error or not
SeqVisitor_visit_seq_until_not_some(vis, a, p) ==
    IF p.res = "some" THEN Step(Insert(vis.of, a, p.val), Await("next_element"))
    ELSE Step(a, Ok(V(vis.of, "", <<>>, a)))

\* SeqVisitor::visit_seq of decode_seq!, and of SmallVec
SeqVisitor_visit_seq(vis, a, p) ==
    IF p.res = "err" THEN Step(a, Failed(p))
    ELSE IF p.res = "some" THEN Step(Insert(vis.of, a, p.val), Await("next_element"))
    ELSE Step(a, Ok(V(vis.of, "", <<>>, a)))

\* ArrayVisitor<[T; 0]>::visit_seq
ArrayVisitor0_visit_seq(vis, a, p) ==
    IF p.res = "err" THEN Step(a, Failed(p))
    ELSE IF p.res = "none" THEN Step(a, Ok(V("Array", "", <<0>>, <<>>)))
    ELSE Step(a, invalid_length(0, expecting(vis)))

\* ArrayVisitor<[T; $len]>::visit_seq of decode_array!
ArrayVisitor_visit_seq(vis, a, p) ==
    IF p.res = "err" THEN Step(a, Failed(p))
    ELSE IF p.res = "none" THEN Step(a, invalid_length(Len(a), expecting(vis)))
    ELSE IF Len(a) + 1 = vis.len THEN Step(Append(a, p.val), Ok(V("Array", "", <<vis.len>>, Append(a, p.val))))
    ELSE Step(Append(a, p.val), Await("next_element"))

\* a tuple visitor that returns what it has when the sequence ends early
TupleVisitor_visit_seq_short(vis, a, p) ==
    IF p.res = "err" THEN Step(a, Failed(p))
    ELSE IF p.res = "none" THEN Step(a, Ok(V("Tuple", "", <<vis.len>>, a)))
    ELSE IF Len(a) + 1 = vis.len THEN Step(Append(a, p.val), Ok(V("Tuple", "", <<vis.len>>, Append(a, p.val))))
    ELSE Step(Append(a, p.val), Await("next_element"))

\* TupleVisitor::visit_seq of decode_tuple!
TupleVisitor_visit_seq(vis, a, p) ==
    IF p.res = "err" THEN Step(a, Failed(p))
    ELSE IF p.res = "none" THEN Step(a, invalid_length(Len(a), expecting(vis)))
    ELSE IF Len(a) + 1 = vis.len THEN Step(Append(a, p.val), Ok(V("Tuple", "", <<vis.len>>, Append(a, p.val))))
    ELSE Step(Append(a, p.val), Await("next_element"))

\* BytesVisitor::visit_seq
BytesVisitor_visit_seq(vis, a, p) ==
    IF p.res = "err" THEN Step(a, Failed(p))
    ELSE IF p.res = "some" THEN Step(Append(a, p.val), Await("next_element"))
    ELSE Step(a, Ok(V("Bytes", "seq", <<>>, a)))

\* SeqAccess::expect_next, after its one next_element
\* an expect_next that reports every pull without an element as a missing element
expect_next_masking(p) ==
    IF p.res = "some" THEN Ok(p.val)
    ELSE custom(<<Str("expected sequence element is missing")>>)

expect_next(p) ==
    IF p.res = "err" THEN Failed(p)
    ELSE IF p.res = "some" THEN Ok(p.val)
    ELSE custom(<<Str("expected sequence element is missing")>>)

\* UuidVisitor::visit_seq: four expect_next, then Uuid::from_fields
UuidVisitor_visit_seq(vis, a, p) ==
    LET e == expect_next(p) IN
    IF e.kind # "Ok" THEN Step(a, e)
    ELSE IF Len(a) + 1 = 4 THEN Step(Append(a, e.val), Ok(V("Uuid", "from_fields", <<>>, Append(a, e.val))))
    ELSE Step(Append(a, e.val), Await("next_element"))

\* IgnoredAny::visit_seq
\* an IgnoredAny that, the sequence ended, waits for one more notice instead of returning
IgnoredAny_visit_seq_stalled(vis, a, p) ==
    IF p.res = "err" THEN Step(a, Failed(p))
    ELSE IF p.res = "some" THEN Step(a, Await("next_element"))
    ELSE Step(a, Await("closed"))

IgnoredAny_visit_seq(vis, a, p) ==
    IF p.res = "err" THEN Step(a, Failed(p))
    ELSE IF p.res = "some" THEN Step(a, Await("next_element"))
    ELSE Step(a, Ok(IgnoredAnyV))

visit_seq(vis, a, p) ==
    CASE vis.name = "SeqVisitor" -> SeqVisitor_visit_seq(vis, a, p)
      [] vis.name = "ArrayVisitor" /\ vis.len = 0 -> ArrayVisitor0_visit_seq(vis, a, p)
      [] vis.name = "ArrayVisitor" /\ vis.len # 0 -> ArrayVisitor_visit_seq(vis, a, p)
      [] vis.name = "TupleVisitor" -> TupleVisitor_visit_seq(vis, a, p)
      [] vis.name = "BytesVisitor" -> BytesVisitor_visit_seq(vis, a, p)
      [] vis.name = "UuidVisitor" -> UuidVisitor_visit_seq(vis, a, p)
      [] vis.name = "IgnoredAny" -> IgnoredAny_visit_seq(vis, a, p)

\* a visitor that pulls every element with the unit context
ElementContext_unit(vis, c) == UnitContext

\* the context a visitor passes to next_element: its own, or () where the
\* element types fix Context = ()
ElementContext(vis, c) ==
    IF vis.name \in {"SeqVisitor", "ArrayVisitor"} THEN c ELSE UnitContext

(***************************************************************************)
(* visit_map of the built-in visitors and of the derived record visitor,   *)
(* one pull at a time.  After next_key the visitor returns, pulls the      *)
(* value (Await) or aborts; after next_value it returns or pulls the       *)
(* next key.                                                               *)
(***************************************************************************)
\* values.insert(key, value) of a BTreeMap / HashMap, kept in key order
MapInsert(a, k, v) ==
    LET before == SelectSeq(a, LAMBDA x : x.items[1].bits[1] < k.bits[1])
        after == SelectSeq(a, LAMBDA x : x.items[1].bits[1] > k.bits[1])
    IN  before \o <<Entry(k, v)>> \o after

\* MapVisitor::visit_map of decode_map!
MapVisitor_key(vis, a, p) ==
    IF p.res = "err" THEN Step(a, Failed(p))
    ELSE IF p.res = "some" THEN Step(a, Await("next_value"))
    ELSE Step(a, Ok(V(vis.of, "", <<>>, a)))

MapVisitor_value(vis, a, k, p) ==
    IF p.res = "err" THEN Step(a, Failed(p))
    ELSE Step(MapInsert(a, k, p.val), Await("next_key"))

\* IgnoredAny::visit_map
IgnoredAny_key(vis, a, p) ==
    IF p.res = "err" THEN Step(a, Failed(p))
    ELSE IF p.res = "some" THEN Step(a, Await("next_value"))
    ELSE Step(a, Ok(IgnoredAnyV))

IgnoredAny_value(vis, a, k, p) ==
    IF p.res = "err" THEN Step(a, Failed(p)) ELSE Step(a, Await("next_key"))

\* the fields of struct Foo
FooFields ==
    << <<Ch.a>>, <<Ch.b>>, <<Ch.underscore, Ch.c>>, <<Ch.d, Ch.underscore, Ch.e>> >>

\* original.replace('_', "")
replace_underscore(name) == SelectSeq(name, LAMBDA c : c # Ch.underscore)

\* the string literals the generated match compares a key with
field_names == [i \in DOMAIN FooFields |-> replace_underscore(FooFields[i])]

\* the arm of the generated match that a key selects: 0 for the `_` arm
MatchArm(key) ==
    IF \E i \in DOMAIN field_names : field_names[i] = key.bits
    THEN CHOOSE i \in DOMAIN field_names :
            /\ field_names[i] = key.bits
            /\ \A j \in 1..(i - 1) : field_names[j] # key.bits
    ELSE 0

\* the generated visit_map: `let mut field = None` for each field, ...
Derived_init == [i \in DOMAIN FooFields |-> None]

\* a generated loop that goes on to the next key when a key names no field
Derived_key_skipping(vis, a, p) ==
    IF p.res = "err" THEN Step(a, Failed(p))
    ELSE IF p.res = "none" THEN Step(a, Ok(V(vis.of, "", <<>>, a)))
    ELSE IF MatchArm(p.val) = 0 THEN Step(a, Await("next_key"))
    ELSE Step(a, Await("next_value"))

\* ... `while let Some(key) = map.next_key::<String>(()).await?`, `match key.as_str()` ...
Derived_key(vis, a, p) ==
    IF p.res = "err" THEN Step(a, Failed(p))
    ELSE IF p.res = "none" THEN Step(a, Ok(V(vis.of, "", <<>>, a)))
    ELSE IF MatchArm(p.val) = 0 THEN Step(a, Panic("not implemented"))
    ELSE Step(a, Await("next_value"))

\* a generated arm that assigns the value to the field declared first
Derived_value_first_field(vis, a, k, p) ==
    IF p.res = "err" THEN Step(a, Failed(p))
    ELSE Step([a EXCEPT ![1] = p.val], Await("next_key"))

\* ... `field = map.next_value(()).await?`
Derived_value(vis, a, k, p) ==
    IF p.res = "err" THEN Step(a, Failed(p))
    ELSE Step([a EXCEPT ![MatchArm(k)] = p.val], Await("next_key"))

\* what a visit_map holds before its first pull
visit_map_init(vis, cur) ==
    CASE vis.name = "Visitor" -> [cap |-> 0, items |-> Derived_init]
      [] vis.name = "MapVisitor" -> with_capacity(vis.of, cur)
      [] OTHER -> Empty(0)

visit_map_key(vis, a, p) ==
    CASE vis.name = "MapVisitor" -> MapVisitor_key(vis, a, p)
      [] vis.name = "IgnoredAny" -> IgnoredAny_key(vis, a, p)
      [] vis.name = "Visitor" -> Derived_key(vis, a, p)

visit_map_value(vis, a, k, p) ==
    CASE vis.name = "MapVisitor" -> MapVisitor_value(vis, a, k, p)
      [] vis.name = "IgnoredAny" -> IgnoredAny_value(vis, a, k, p)
      [] vis.name = "Visitor" -> Derived_value(vis, a, k, p)

(***************************************************************************)
(* visit_array_u8 of BytesVisitor and UuidVisitor, one buffer call at a    *)
(* time.                                                                   *)
(***************************************************************************)
\* a buffer with room for values but none in it
array_buffer_empty(vis) == <<>>

\* let mut buf = [0u8; BUF_SIZE] / [0u8; 16]
array_buffer(vis) == <<Run(0, 0, BufferLen(vis))>>

\* a loop that appends the whole buffer after every call
BytesVisitor_visit_array_u8_whole_buffer(vis, a, p, b) ==
    IF p.res = "err" THEN Step(a, Failed(p))
    ELSE IF p.res = "none" THEN Step(a, Ok(V("Bytes", "array", <<>>, a)))
    ELSE Step(a \o b, Await("buffer"))

\* BytesVisitor::visit_array_u8: bytes.extend_from_slice(&buf[..len]) until len == 0;
\* b is the buffer as the call left it
BytesVisitor_visit_array_u8(vis, a, p, b) ==
    IF p.res = "err" THEN Step(a, Failed(p))
    ELSE IF p.res = "none" THEN Step(a, Ok(V("Bytes", "array", <<>>, a)))
    ELSE Step(a \o TakeRuns(b, p.val.bits[2]), Await("buffer"))

\* UuidVisitor::visit_array_u8: one buffer call, which must fill the buffer
UuidVisitor_visit_array_u8(vis, a, p, b) ==
    IF p.res = "err" THEN Step(a, Failed(p))
    ELSE IF p.val.bits[2] = Size(array_buffer(vis)) THEN Step(a, Ok(V("Uuid", "from_bytes", <<>>, b)))
    ELSE Step(a, invalid_length(p.val.bits[2], expecting(vis)))

visit_array_u8(vis, a, p, b) ==
    CASE vis.name = "BytesVisitor" -> BytesVisitor_visit_array_u8(vis, a, p, b)
      [] vis.name = "UuidVisitor" -> UuidVisitor_visit_array_u8(vis, a, p, b)

(***************************************************************************)
(* A whole visit_seq or visit_map call on a cursor, start to return: what  *)
(* it returns and the pulls it makes.                                      *)
(***************************************************************************)
RECURSIVE RunSeq(_, _, _, _, _)
RunSeq(vis, c, cur, a, log) ==
    LET p == next_element(cur, ElementContext(vis, c))
        s == visit_seq(vis, a, p)
    IN  IF s.ret.kind = "Pending"
        THEN RunSeq(vis, c, [cur EXCEPT !.pos = @ + 1], s.acc, Append(log, p))
        ELSE [ret |-> s.ret, pulls |-> Append(log, p)]

visit_seq_run(vis, c, cur) == RunSeq(vis, c, cur, visit_seq_init(vis, cur).items, <<>>)

RECURSIVE RunMap(_, _, _, _, _, _)
RunMap(vis, op, cur, a, k, log) ==
    LET p == IF op = "next_key" THEN next_key(cur, UnitContext) ELSE next_value(cur, UnitContext)
        s == IF op = "next_key" THEN visit_map_key(vis, a, p) ELSE visit_map_value(vis, a, k, p)
        got == op = "next_key" /\ p.res = "some"
        cur2 == [cur EXCEPT !.pos = @ + 1, !.keys = IF got THEN @ + 1 ELSE @]
    IN  IF s.ret.kind = "Pending"
        THEN RunMap(vis, s.ret.val.text, cur2, s.acc, IF got THEN p.val ELSE k, Append(log, p))
        ELSE [ret |-> s.ret, pulls |-> Append(log, p)]

visit_map_run(vis, cur) ==
    RunMap(vis, "next_key", cur, visit_map_init(vis, cur).items, Unit, <<>>)

(***************************************************************************)
(* Encoding.  The format's Encoder and its builders are the environment:   *)
(* each call on them succeeds or, at the call chosen when the encode       *)
(* starts, fails.                                                          *)
(***************************************************************************)
\* Iterator::size_hint of an iterator that yields n items: (lower, upper)
SizeBounds(lo, hi) == [lo |-> lo, hi |-> hi]
IteratorHints(n) == { SizeBounds(n, <<n>>), SizeBounds(0, <<>>), SizeBounds(0, <<n + 1>>) }

\* a length hint that trusts the lower bound alone
iterator_len_hint_lower(sh) == <<sh.lo>>

\* iterator_len_hint
iterator_len_hint(sh) == IF sh.hi # <<>> /\ sh.lo = sh.hi[1] THEN <<sh.lo>> ELSE <<>>

Enc(kind, items, failAt, sh) ==
    [kind |-> kind, items |-> items, pos |-> 0, calls |-> <<>>, failAt |-> failAt, bounds |-> sh]
NoEnc == Enc("none", <<>>, 0, SizeBounds(0, <<>>))

EncoderError(i) == V("custom", "encoder", <<i>>, <<>>)
\* what the format returns from end: its output after i calls
Output(i) == V("output", "", <<i>>, <<>>)
LenArg(hint) == V("len", "", hint, <<>>)

\* the calls that return a builder, or nothing, rather than the format's output
BuilderCalls ==
    {"encode_seq", "encode_map", "encode_tuple", "encode_element", "encode_key", "encode_value"}

\* a call on the format's encoder or builder, as the format answers it
EncCall(e, op, arg) ==
    LET i == Len(e.calls) + 1 IN
    [ op |-> op, arg |-> arg,
      res |-> IF e.failAt = i THEN "err" ELSE "ok",
      val |-> IF e.failAt = i THEN EncoderError(i)
              ELSE IF op \in BuilderCalls THEN Unit ELSE Output(i) ]

\* a collect_seq that goes on to end whatever its calls return
collect_seq_step_unchecked(c, left) ==
    IF c.op = "end" THEN (IF c.res = "err" THEN Failed(c) ELSE Ok(c.val))
    ELSE IF left > 0 THEN Await("encode_element")
    ELSE Await("end")

\* Encoder::collect_seq after builder call c, `left` items still to come:
\* `?`, the next turn of the for loop, or encoder.end()
collect_seq_step(c, left) ==
    IF c.res = "err" THEN Failed(c)
    ELSE IF c.op = "end" THEN Ok(c.val)
    ELSE IF left > 0 THEN Await("encode_element")
    ELSE Await("end")

\* an encode_entry that encodes the value whatever encode_key returned
encode_entry_unchecked(c) == Await("encode_value")

\* EncodeMap::encode_entry after its encode_key: self.encode_key(key)?; self.encode_value(value)
encode_entry(c) == IF c.res = "err" THEN Failed(c) ELSE Await("encode_value")

\* Encoder::collect_map after builder call c, `left` pairs still to come
collect_map_step(c, left) ==
    IF c.op = "encode_key" THEN encode_entry(c)
    ELSE IF c.res = "err" THEN Failed(c)
    ELSE IF c.op = "end" THEN Ok(c.val)
    ELSE IF left > 0 THEN Await("encode_key")
    ELSE Await("end")

\* a tuple encode that ends before its last element
encode_tuple_step_short(c, left) ==
    IF c.res = "err" THEN Failed(c)
    ELSE IF c.op = "end" THEN Ok(c.val)
    ELSE IF left > 1 THEN Await("encode_element")
    ELSE Await("end")

\* to_stream of a tuple, of &[T; N] and of [T; 0] after builder call c, `left`
\* elements still to come: encode_tuple($len)?, encode_element(..)? for each
\* element, then end()
encode_tuple_step(c, left) ==
    IF c.res = "err" THEN Failed(c)
    ELSE IF c.op = "end" THEN Ok(c.val)
    ELSE IF left > 0 THEN Await("encode_element")
    ELSE Await("end")

collect_step(e, c, left) ==
    IF e.kind = "seq" THEN collect_seq_step(c, left)
    ELSE IF e.kind = "map" THEN collect_map_step(c, left)
    ELSE encode_tuple_step(c, left)

(***************************************************************************)
(* The state of one decode or encode.                                      *)
(***************************************************************************)
VARIABLES
    pc,       \* where the decode stands: idle, hinted, done, or the pull the visitor makes
              \* next; where the encode stands: the call it makes next, or encoded
    ty,       \* the type whose from_stream is running, and after it the T of its Option<T>
    ctx,      \* the context given to that from_stream
    hints,    \* the hint calls made on the decoder, in order
    call,     \* the last callback the decoder invoked
    cursor,   \* the cursor given to the running visitor
    pulls,    \* the pulls made on that cursor, in order
    acc,      \* what the running visitor has gathered
    key,      \* the key a map visitor pulled last
    buf,      \* the buffer a visit_array_u8 hands to ArrayAccess::buffer
    cap,      \* the capacity it reserved
    conts,    \* what the callers do to the answer, innermost first
    active,   \* the calls on the decoder and its cursor that have not returned, outermost first
    enc,      \* an encode: the iterator collected and the calls made on the format's encoder
    result    \* what the first from_stream returns

vars == <<pc, ty, ctx, hints, call, cursor, pulls, acc, key, buf, cap, conts, active, enc, result>>

NonOptionTypes == Types \ {T("Option", 0)}
\* the T of the Option<T> decoded
OptionInner ==
    { T(n, 0) : n \in {"i32", "u8", "String", "Vec", "()", "IgnoredAny"} }
    \cup { T("isize", 4), T("Tuple", MaxArity) }
TypeChains ==
    { <<t>> : t \in NonOptionTypes }
    \cup { Rep(T("Option", 0), d) \o <<t>> : d \in 1..MaxDepth, t \in OptionInner }

HintCall(t, c, h) == [ty |-> t, ctx |-> c, hint |-> h]
Call(cb, arg) == [cb |-> cb, arg |-> arg]

Visitor == VisitorOf(Head(ty))

\* a call on the decoder or its cursor that has not returned: `at` says
\* whether the format still has to answer it, or has invoked the visitor
\* of a hint call, which is running
Issued(op) == [op |-> op, at |-> "format"]
\* the decoder invokes a callback of the innermost hint call's visitor
Visiting(a) == [a EXCEPT ![Len(a)].at = "visitor"]
\* the innermost call returns to the visitor that awaits it
Answered(a) == SubSeq(a, 1, Len(a) - 1)
\* the innermost call is the one the visitor awaits
Awaited(a, op) == a # <<>> /\ a[Len(a)] = Issued(op)
\* the pulls a visitor makes on its cursor
PullOps == {"next_element", "next_key", "next_value", "buffer"}

\* a visitor that makes its next pull without awaiting the one before
Running_unawaited(a) == TRUE

\* the visitor's body is running: it is not suspended at an `.await`
Running(a) == a # <<>> /\ a[Len(a)].at = "visitor"

Init ==
    /\ pc = "idle"
    /\ ty = <<>>
    /\ ctx = UnitContext
    /\ hints = <<>>
    /\ call = Call("", Unit)
    /\ cursor = NoCursor
    /\ pulls = <<>>
    /\ acc = <<>>
    /\ key = Unit
    /\ buf = <<>>
    /\ cap = 0
    /\ conts = <<>>
    /\ active = <<>>
    /\ enc = NoEnc
    /\ result = Pending

\* the running visitor returns r, which goes up through the callers
Return(r) ==
    /\ pc' = "done"
    /\ result' = Unwind(conts, r)
    /\ active' = <<>>

\* FromStream::from_stream(c, decoder) of the first type of a chain
from_stream ==
    /\ pc = "idle"
    /\ \E chain \in TypeChains :
         \E c \in ContextsOf(chain[Len(chain)]), h \in HintsOf(Head(chain)) :
            /\ pc' = "hinted"
            /\ ty' = chain
            /\ ctx' = c
            /\ hints' = <<HintCall(Head(chain), c, h)>>
            /\ conts' = ContsOf(Head(chain))
            /\ active' = <<Issued(h.hint)>>
    /\ UNCHANGED <<call, cursor, pulls, acc, key, buf, cap, result, enc>>

\* the decoder invokes a value callback
visit_value ==
    /\ pc = "hinted"
    /\ \E cb \in ValueCallbacks :
         \E v \in ArgValues(cb),
            ext \in IF cb = "visit_string" /\ Visitor.name \in {"BytesVisitor", "UuidVisitor"}
                    THEN BOOLEAN ELSE {TRUE} :
            /\ call' = Call(cb, v)
            /\ Return(Visit(Visitor, cb, v, ext))
    /\ UNCHANGED <<ty, ctx, hints, cursor, pulls, acc, key, buf, cap, conts, enc>>

\* the decoder invokes visit_some(decoder)
visit_some ==
    /\ pc = "hinted"
    /\ call' = Call("visit_some", Unit)
    /\ IF Visitor.name = "OptionVisitor"
       THEN \* T::from_stream(self.context, decoder).map_ok(Some)
            /\ \E h \in HintsOf(ty[2]) :
                 /\ hints' = Append(hints, HintCall(ty[2], ctx, h))
                 /\ active' = Append(Visiting(active), Issued(h.hint))
            /\ ty' = Tail(ty)
            /\ conts' = ContsOf(ty[2]) \o <<Cont("map_ok_Some", 0)>> \o conts
            /\ UNCHANGED <<pc, ctx, cursor, pulls, acc, key, buf, cap, result, enc>>
       ELSE IF Visitor.name = "IgnoredAny"
       THEN \* IgnoredAny::from_stream((), deserializer)
            /\ Len(hints) <= MaxDepth
            /\ hints' = Append(hints, HintCall(Head(ty), UnitContext, HintOf(Head(ty))))
            /\ active' = Append(Visiting(active), Issued(HintOf(Head(ty)).hint))
            /\ conts' = <<Cont("ignored_some", 0)>> \o conts
            /\ ctx' = UnitContext
            /\ UNCHANGED <<pc, ty, cursor, pulls, acc, key, buf, cap, result, enc>>
       ELSE /\ Return(visit_default(Visitor, "visit_some"))
            /\ UNCHANGED <<ty, ctx, hints, cursor, pulls, acc, key, buf, cap, conts, enc>>

\* the decoder invokes visit_seq with a cursor
visit_seq_call ==
    /\ pc = "hinted"
    /\ call' = Call("visit_seq", Unit)
    /\ IF "visit_seq" \in Overrides(Visitor)
       THEN /\ \E items \in SeqStreams(Visitor) :
                 \E failAt \in 0..(Len(items) + 1), hint \in SizeHintsFor(Visitor) :
                    cursor' = Cursor("seq", items, failAt, hint)
            /\ cap' = visit_seq_init(Visitor, cursor').cap
            /\ acc' = visit_seq_init(Visitor, cursor').items
            /\ pc' = "next_element"
            /\ active' = Visiting(active)
            /\ UNCHANGED <<ty, ctx, hints, pulls, key, buf, conts, result, enc>>
       ELSE /\ Return(visit_default(Visitor, "visit_seq"))
            /\ UNCHANGED <<ty, ctx, hints, cursor, pulls, acc, key, buf, cap, conts, enc>>

\* a running visitor calls next_element, next_key, next_value or buffer on
\* its cursor, and awaits the answer
pull ==
    /\ pc \in PullOps
    /\ Running(active)
    /\ active' = Append(active, Issued(pc))
    /\ UNCHANGED <<pc, ty, ctx, hints, call, cursor, pulls, acc, key, buf, cap, conts, enc, result>>

\* the cursor answers next_element, and the running visit_seq acts on the answer
visit_seq_pull ==
    /\ pc = "next_element"
    /\ Awaited(active, pc)
    /\ LET p == next_element(cursor, ElementContext(Visitor, ctx))
           s == visit_seq(Visitor, acc, p)
       IN  /\ cursor' = [cursor EXCEPT !.pos = @ + 1]
           /\ pulls' = Append(pulls, p)
           /\ acc' = s.acc
           /\ IF s.ret.kind = "Pending"
              THEN pc' = s.ret.val.text /\ active' = Answered(active) /\ UNCHANGED result
              ELSE Return(s.ret)
    /\ UNCHANGED <<ty, ctx, hints, call, key, buf, cap, conts, enc>>

\* the decoder invokes visit_map with a cursor
visit_map_call ==
    /\ pc = "hinted"
    /\ call' = Call("visit_map", Unit)
    /\ IF "visit_map" \in Overrides(Visitor)
       THEN /\ \E items \in MapStreams(Visitor) :
                 \E failAt \in 0..(2 * Len(items) + 1), hint \in SizeHintsFor(Visitor) :
                    cursor' = Cursor("map", items, failAt, hint)
            /\ cap' = visit_map_init(Visitor, cursor').cap
            /\ acc' = visit_map_init(Visitor, cursor').items
            /\ pc' = "next_key"
            /\ active' = Visiting(active)
            /\ UNCHANGED <<ty, ctx, hints, pulls, key, buf, conts, result, enc>>
       ELSE /\ Return(visit_default(Visitor, "visit_map"))
            /\ UNCHANGED <<ty, ctx, hints, cursor, pulls, acc, key, buf, cap, conts, enc>>

\* the running visit_map pulls the next key and acts on the answer
visit_map_pull_key ==
    /\ pc = "next_key"
    /\ Awaited(active, pc)
    /\ LET p == next_key(cursor, UnitContext)
           s == visit_map_key(Visitor, acc, p)
       IN  /\ cursor' = [cursor EXCEPT !.pos = @ + 1,
                                       !.keys = IF p.res = "some" THEN @ + 1 ELSE @]
           /\ pulls' = Append(pulls, p)
           /\ acc' = s.acc
           /\ key' = IF p.res = "some" THEN p.val ELSE key
           /\ IF s.ret.kind = "Pending"
              THEN pc' = s.ret.val.text /\ active' = Answered(active) /\ UNCHANGED result
              ELSE Return(s.ret)
    /\ UNCHANGED <<ty, ctx, hints, call, buf, cap, conts, enc>>

\* the running visit_map pulls the value of the key it holds
visit_map_pull_value ==
    /\ pc = "next_value"
    /\ Awaited(active, pc)
    /\ LET p == next_value(cursor, UnitContext)
           s == visit_map_value(Visitor, acc, key, p)
       IN  /\ cursor' = [cursor EXCEPT !.pos = @ + 1]
           /\ pulls' = Append(pulls, p)
           /\ acc' = s.acc
           /\ IF s.ret.kind = "Pending"
              THEN pc' = s.ret.val.text /\ active' = Answered(active) /\ UNCHANGED result
              ELSE Return(s.ret)
    /\ UNCHANGED <<ty, ctx, hints, call, key, buf, cap, conts, enc>>

\* the decoder invokes a visit_array_* callback with a cursor
visit_array_call ==
    /\ pc = "hinted"
    /\ \E cb \in ArrayCallbacks :
         /\ call' = Call(cb, Unit)
         /\ IF cb \in Overrides(Visitor)
            THEN /\ \E items \in ArrayStreams(Visitor) :
                      \E failAt \in 0..(Len(items) + 1) :
                         cursor' = Cursor("array", items, failAt, <<>>)
                 /\ buf' = array_buffer(Visitor)
                 /\ pc' = "buffer"
                 /\ active' = Visiting(active)
                 /\ UNCHANGED <<ty, ctx, hints, pulls, acc, key, cap, conts, result, enc>>
            ELSE /\ Return(visit_default(Visitor, cb))
                 /\ UNCHANGED <<ty, ctx, hints, cursor, pulls, acc, key, buf, cap, conts, enc>>

\* the running visit_array_u8 calls buffer and acts on the answer
visit_array_pull ==
    /\ pc = "buffer"
    /\ Awaited(active, pc)
    /\ LET p == buffer(cursor)
           s == visit_array_u8(Visitor, acc, p, Written(p, buf))
       IN  /\ cursor' = [cursor EXCEPT !.pos = @ + 1]
           /\ pulls' = Append(pulls, p)
           /\ buf' = Written(p, buf)
           /\ acc' = s.acc
           /\ IF s.ret.kind = "Pending"
              THEN pc' = s.ret.val.text /\ active' = Answered(active) /\ UNCHANGED result
              ELSE Return(s.ret)
    /\ UNCHANGED <<ty, ctx, hints, call, key, cap, conts, enc>>

\* sequences of typed elements: the i32 values 1, 2, 3, and a String with a u8
I32(n) == IntV("i32", <<n, 0, 0, 0>>)
TypedSeqs == { <<I32(1), I32(2), I32(3)>>, <<StringV(<<Ch.a>>), IntV("u8", <<255>>)>> }

\* the encode makes call c and goes where step s says
Encoded(e, c, s) ==
    /\ enc' = [e EXCEPT !.calls = Append(@, c)]
    /\ IF s.kind = "Pending"
       THEN pc' = s.val.text /\ UNCHANGED result
       ELSE pc' = "encoded" /\ result' = s
    /\ UNCHANGED <<ty, ctx, hints, call, cursor, pulls, acc, key, buf, cap, conts, active>>

\* Encoder::collect_seq(iter): encode_seq(iterator_len_hint(&iter))
collect_seq ==
    /\ pc = "idle"
    /\ \E items \in SeqsUpTo(Elems, MaxLen) \cup TypedSeqs :
         \E sh \in IteratorHints(Len(items)), failAt \in 0..(Len(items) + 2) :
            LET e == Enc("seq", items, failAt, sh)
                c == EncCall(e, "encode_seq", LenArg(iterator_len_hint(sh)))
            IN  Encoded(e, c, collect_seq_step(c, Len(items)))

\* Encoder::collect_map(iter): encode_map(iterator_len_hint(&iter))
collect_map ==
    /\ pc = "idle"
    /\ \E items \in { EntriesOf(ks) : ks \in SeqsUpTo(Elems, MaxEntries) } :
         \E sh \in IteratorHints(Len(items)), failAt \in 0..(2 * Len(items) + 2) :
            LET e == Enc("map", items, failAt, sh)
                c == EncCall(e, "encode_map", LenArg(iterator_len_hint(sh)))
            IN  Encoded(e, c, collect_map_step(c, Len(items)))

\* the values of the pointer-sized integers, for pointers of 4 and of 8 bytes
PointerValues == { IntV(n, p) : n \in {"isize", "usize"}, p \in Patterns(4) \cup Patterns(8) }
\* the values whose to_stream is a single call on the encoder
Scalars == BoolValues \cup UNION { IntValues(n) : n \in IntTypes } \cup PointerValues \cup StringValues
Options ==
    {None} \cup { Some(x) : x \in IntValues("i32") \cup IntValues("u8") \cup PointerValues \cup StringValues }

\* an autoencode! that widens isize as if it were unsigned
autoencode_unsigned(v) ==
    CASE v.tag \in {"isize", "usize"} -> [op |-> "encode_u64", arg |-> AsU64(v)]
      [] v.tag = "String" -> [op |-> "encode_str", arg |-> v]
      [] OTHER -> [op |-> "encode_" \o v.tag, arg |-> v]

\* autoencode!($ty, $method $($cast)*) and to_stream of String: the method
\* called on the encoder and its argument
autoencode(v) ==
    CASE v.tag = "isize" -> [op |-> "encode_i64", arg |-> AsI64(v)]
      [] v.tag = "usize" -> [op |-> "encode_u64", arg |-> AsU64(v)]
      [] v.tag = "String" -> [op |-> "encode_str", arg |-> v]
      [] OTHER -> [op |-> "encode_" \o v.tag, arg |-> v]

\* an Option that encodes its value directly, without encode_some
Option_to_stream_unwrapped(v) ==
    IF v = None THEN [op |-> "encode_none", arg |-> Unit] ELSE autoencode(v.items[1])

\* ToStream for Option<T>: encode_some(value) or encode_none()
Option_to_stream(v) ==
    IF v = None THEN [op |-> "encode_none", arg |-> Unit]
    ELSE [op |-> "encode_some", arg |-> v.items[1]]

\* the arities of the fixed arrays and of the tuples encoded: [T; 0] is an
\* array, and the shortest tuple has one element
FixedArities(kind) == IF kind = "array" THEN 0..MaxLen ELSE 1..MaxLen

\* ToStream::to_stream of a tuple or a fixed array: encoder.encode_tuple($len);
\* of a scalar or an Option: the one call on the encoder, whose answer it returns
to_stream ==
    /\ pc = "idle"
    /\ \/ \E kind \in {"tuple", "array"} :
            \E items \in SeqsUpTo(Elems, MaxLen) \cup TypedSeqs, failAt \in 0..(MaxLen + 2) :
               /\ Len(items) \in FixedArities(kind)
               /\ failAt <= Len(items) + 2
               /\ LET e == Enc(kind, items, failAt, SizeBounds(Len(items), <<Len(items)>>))
                      c == EncCall(e, "encode_tuple", LenArg(<<Len(items)>>))
                  IN  Encoded(e, c, encode_tuple_step(c, Len(items)))
       \/ \E v \in Scalars \cup Options, failAt \in 0..1 :
            LET e == Enc("value", <<v>>, failAt, SizeBounds(1, <<1>>))
                m == IF v \in Options THEN Option_to_stream(v) ELSE autoencode(v)
                c == EncCall(e, m.op, m.arg)
            IN  Encoded(e, c, IF c.res = "err" THEN Failed(c) ELSE Ok(c.val))

\* the for loop of collect_seq: encoder.encode_element(item)
encode_element ==
    /\ pc = "encode_element"
    /\ LET e == [enc EXCEPT !.pos = @ + 1]
           c == EncCall(enc, "encode_element", enc.items[e.pos])
       IN  Encoded(e, c, collect_step(e, c, Len(e.items) - e.pos))

\* the for loop of collect_map, encode_entry: self.encode_key(key)
encode_key ==
    /\ pc = "encode_key"
    /\ LET e == [enc EXCEPT !.pos = @ + 1]
           c == EncCall(enc, "encode_key", enc.items[e.pos].items[1])
       IN  Encoded(e, c, collect_step(e, c, Len(e.items) - e.pos))

\* encode_entry: self.encode_value(value)
encode_value ==
    /\ pc = "encode_value"
    /\ LET c == EncCall(enc, "encode_value", enc.items[enc.pos].items[2])
       IN  Encoded(enc, c, collect_step(enc, c, Len(enc.items) - enc.pos))

\* encoder.end()
end ==
    /\ pc = "end"
    /\ LET c == EncCall(enc, "end", Unit)
       IN  Encoded(enc, c, collect_step(enc, c, 0))

\* the type of an encoded value, whose from_stream decodes it again
TypeOf(v) ==
    CASE v.tag \in {"isize", "usize"} -> T(v.tag, Len(v.bits))
      [] v.tag \in {"None", "Some"} -> T("Option", 0)
      [] OTHER -> T(v.tag, 0)

\* the callback by which a format that keeps every call hands back what
\* each Encoder method was given
FaithfulCallback ==
    [ encode_bool |-> "visit_bool", encode_i8 |-> "visit_i8", encode_i16 |-> "visit_i16",
      encode_i32 |-> "visit_i32", encode_i64 |-> "visit_i64", encode_u8 |-> "visit_u8",
      encode_u16 |-> "visit_u16", encode_u32 |-> "visit_u32", encode_u64 |-> "visit_u64",
      encode_str |-> "visit_string", encode_none |-> "visit_none" ]

\* from_stream of type t on a decoder that replays the single call m
FromCall(t, m) == Unwind(ContsOf(t), Visit(VisitorOf(t), FaithfulCallback[m.op], m.arg, TRUE))

\* what a cursor yields for an encoded element x: the element's own
\* from_stream on what its to_stream encoded; an element of the generic
\* type T is taken to come back as it went
FromElement(x) == IF x.tag = "elem" THEN Ok(x) ELSE FromCall(TypeOf(x), autoencode(x))

\* the cursor a faithful decoder gives to visit_seq for the calls of an encode
FaithfulCursor(e) ==
    LET n == Cardinality({ i \in DOMAIN e.calls : e.calls[i].op = "encode_element" })
    IN  Cursor("seq", [i \in 1..n |-> FromElement(e.calls[i + 1].arg).val], 0, e.calls[1].arg.bits)

\* the value an encode was given, as its type's from_stream builds it
Original(e) ==
    CASE e.kind = "seq" -> V("Vec", "", <<>>, e.items)
      [] e.kind = "tuple" -> V("Tuple", "", <<Len(e.items)>>, e.items)
      [] e.kind = "array" -> V("Array", "", <<Len(e.items)>>, e.items)
      [] OTHER -> e.items[1]

\* from_stream of the encoded value's type on a decoder that replays the
\* calls of the encode e
FromEncoded(e, c) ==
    LET m == e.calls[1]
        t == CASE e.kind = "seq" -> T("Vec", 0)
               [] e.kind = "tuple" -> T("Tuple", Len(e.items))
               [] e.kind = "array" -> T("Array", Len(e.items))
               [] OTHER -> TypeOf(e.items[1])
    IN  IF m.op \in {"encode_seq", "encode_tuple"}
        THEN visit_seq_run(VisitorOf(t), c, FaithfulCursor(e)).ret
        ELSE IF m.op = "encode_some"
        THEN ApplyCont(Cont("map_ok_Some", 0), FromCall(TypeOf(m.arg), autoencode(m.arg)))
        ELSE FromCall(t, m)

\* a format that kept every call of an encode that succeeded is decoded again
from_stream_encoded ==
    /\ pc = "encoded"
    /\ result.kind = "Ok"
    /\ enc.kind \in {"seq", "tuple", "array", "value"}
    /\ pc' = "decoded"
    /\ \E c \in Contexts : result' = FromEncoded(enc, c)
    /\ UNCHANGED <<ty, ctx, hints, call, cursor, pulls, acc, key, buf, cap, conts, active, enc>>

Next ==
    \/ from_stream
    \/ visit_value
    \/ visit_some
    \/ visit_seq_call
    \/ pull
    \/ visit_seq_pull
    \/ visit_map_call
    \/ visit_map_pull_key
    \/ visit_map_pull_value
    \/ visit_array_call
    \/ visit_array_pull
    \/ collect_seq
    \/ collect_map
    \/ to_stream
    \/ encode_element
    \/ encode_key
    \/ encode_value
    \/ end
    \/ from_stream_encoded

Spec == Init /\ [][Next]_vars

\* the executor polls a decode or encode that can go on, and the format
\* answers every call made on it
FairSpec == Spec /\ WF_vars(Next)


(***************************************************************************)
(* Properties.                                                             *)
(***************************************************************************)
NarrowSigned == {"visit_i8", "visit_i16", "visit_i32"}
NarrowUnsigned == {"visit_u8", "visit_u16", "visit_u32"}
NarrowOf(wide) == IF wide = "visit_i64" THEN NarrowSigned ELSE NarrowUnsigned
WideOf(cb) == IF cb \in NarrowSigned THEN "visit_i64" ELSE "visit_u64"

\* the 64-bit patterns whose low bytes are a sample pattern of a narrower width
\* and whose high bytes are all zeros or all ones
WidePatterns ==
    { p \o Rep(f, IntWidths.i64 - Len(p)) :
        p \in Patterns(IntWidths.i8) \cup Patterns(IntWidths.i16) \cup Patterns(IntWidths.i32),
        f \in {0, 255} }

\* the 64-bit values that are the same number as the narrower value v
SameNumber(cb, v) ==
    { w \in { IntV(ArgType[WideOf(cb)], p) : p \in WidePatterns } : Number(w) = Number(v) }

\* C1: when a visitor that overrides visit_i64 (visit_u64) and no narrower
\* callback of that signedness is given a narrower integer, what comes back is
\* exactly what its visit_i64 (visit_u64) returns for the 64-bit value that is
\* the same number, and there is such a value for every narrower one.
C1_NumericForwarding ==
    ( /\ pc = "done"
      /\ call.cb \in NarrowSigned \cup NarrowUnsigned
      /\ WideOf(call.cb) \in Overrides(Visitor)
      /\ Overrides(Visitor) \cap NarrowOf(WideOf(call.cb)) = {} )
    => /\ SameNumber(call.cb, call.arg) # {}
       /\ \A w \in SameNumber(call.cb, call.arg) :
            result = Unwind(conts, Visit(Visitor, WideOf(call.cb), w, TRUE))

\* visit_i8(-128) reached a visitor of visit_i64 alone as the i64 -128
C1_Witness ==
    /\ pc = "done"
    /\ Visitor.name = "WideSigned"
    /\ call = Call("visit_i8", IntV("i8", <<128>>))
    /\ result = Ok(V("WideSigned", "visit_i64", <<128>> \o Rep(255, 7), <<>>))

BuiltinIntegerTargets == {"i16", "i32", "i64", "u16", "u32", "u64"}

\* callback cb carries an integer narrower than `target`, of its signedness
Narrower(cb, target) ==
    /\ cb \in NarrowSigned \cup NarrowUnsigned
    /\ (ArgType[cb] \in SignedTypes) = (target \in SignedTypes)
    /\ IntWidths[ArgType[cb]] < IntWidths[target]

\* C2: when the decoder answers the from_stream of i16, i32, i64, u16, u32 or
\* u64 through a narrower callback of the same signedness, from_stream
\* returns that number and no error.
C2_NarrowCallbackAccepted ==
    ( /\ pc = "done"
      /\ Len(hints) = 1
      /\ Head(ty).n \in BuiltinIntegerTargets
      /\ Narrower(call.cb, Head(ty).n) )
    => /\ result.kind = "Ok"
       /\ Number(result.val) = Number(call.arg)

\* C3: whatever callback the decoder invokes on a visitor that overrides none,
\* the answer is an error built by invalid_type whose expected part is the
\* visitor's expecting() text.
C3_DefaultsRejectEverything ==
    (pc = "done" /\ Overrides(Visitor) = {})
    => /\ call.cb \in Callbacks
       /\ result.kind = "Err"
       /\ result.calls = <<"invalid_type", "custom">>
       /\ ErrKind(result) = "invalid type: "
       /\ ErrExpected(result) = expecting(Visitor)

\* visit_i16 on a visitor that overrides nothing: forwarded, then rejected
C3_Witness ==
    /\ pc = "done"
    /\ Visitor.name = "Bare"
    /\ call.cb = "visit_i16"
    /\ call.arg = IntV("i16", <<0, 128>>)
    /\ result = invalid_type(AsI64(call.arg), Str("Bare"))

TaxonomyKinds ==
    { "invalid_type", "invalid_value", "invalid_length",
      "missing_field", "duplicate_field", "unknown_field" }

\* C4: every kind of the taxonomy is a constructor of trait Error, and an
\* error built by a constructor other than custom went through custom
\* exactly once, with a message that holds the found and the expected part.
C4_EveryKindFromCustom ==
    /\ \A k \in TaxonomyKinds : k \in ErrorMethods
    /\ (result.kind = "Err" /\ result.calls # <<>>)
       => /\ Len(SelectSeq(result.calls, LAMBDA m : m = "custom")) = 1
          /\ (Head(result.calls) # "custom"
              => /\ Head(result.calls) \in TaxonomyKinds
                 /\ Len(result.val.items) = 4
                 /\ ErrExpected(result).tag = "str")


\* the hint that matches the shape of a built-in type
ShapeHint(t) ==
    CASE t.n \in {"bool"} \cup IntTypes \cup FloatTypes -> Hint("decode_" \o t.n, <<>>)
      [] t.n = "isize" -> Hint("decode_i64", <<>>)
      [] t.n = "usize" -> Hint("decode_u64", <<>>)
      [] t.n = "String" -> Hint("decode_string", <<>>)
      [] t.n = "Option" -> Hint("decode_option", <<>>)
      [] t.n \in SeqTypes -> Hint("decode_seq", <<>>)
      [] t.n \in {"Array", "Tuple"} -> Hint("decode_tuple", <<t.len>>)
      [] t.n \in MapTypes -> Hint("decode_map", <<>>)
      [] t.n \in {"()", "PhantomData"} -> Hint("decode_unit", <<>>)
      [] t.n = "Bytes" -> Hint("decode_bytes", <<>>)
      [] t.n = "Uuid" -> Hint("decode_uuid", <<>>)
      [] t.n = "IgnoredAny" -> Hint("decode_ignored_any", <<>>)

\* the from_stream calls made so far: the first, and one for each answer
\* that a caller waits to wrap (Option<T>, IgnoredAny::visit_some)
FromStreamCalls ==
    1 + Cardinality({ i \in DOMAIN conts : conts[i].k \in {"map_ok_Some", "ignored_some"} })

\* C5: every from_stream of a built-in type has issued one hint, the one
\* that matches the type's shape, a hint of trait Decoder other than
\* decode_any; no hint is issued while the value is traversed.
C5_OneMatchingHint ==
    /\ \A i \in DOMAIN hints :
         hints[i].ty \in BuiltinTypes
         => /\ hints[i].hint = ShapeHint(hints[i].ty)
            /\ hints[i].hint \in DecoderHints
            /\ hints[i].hint.hint # "decode_any"
    /\ ty # <<>> => Len(hints) = FromStreamCalls

\* Option<(T1, .., TN)>: decode_option, then decode_tuple(N) for the value inside
C5_Witness ==
    /\ pc = "done"
    /\ pulls # <<>>
    /\ hints = << HintCall(T("Option", 0), UnitContext, Hint("decode_option", <<>>)),
                  HintCall(T("Tuple", MaxArity), UnitContext, Hint("decode_tuple", <<MaxArity>>)) >>

OrderedSeqVisitors == {"Vec", "VecDeque", "LinkedList"}

\* C6: while a Vec, VecDeque or LinkedList visitor traverses a cursor that
\* holds e1..en and never fails, every pull but the last made so far returned
\* an element, the i-th of them ei; once the visitor has returned, it has
\* made n+1 pulls, the last one answered empty, and returned [e1..en].
C6_OrderedSequence ==
    ( /\ cursor.kind = "seq"
      /\ Visitor.name = "SeqVisitor"
      /\ Visitor.of \in OrderedSeqVisitors
      /\ cursor.failAt = 0 )
    => /\ \A i \in DOMAIN pulls :
            /\ pulls[i].op = "next_element"
            /\ i < Len(pulls) => pulls[i].res = "some"
            /\ pulls[i].res = "some" => i <= Len(cursor.items) /\ pulls[i].val = cursor.items[i]
       /\ pc = "done"
          => /\ Len(pulls) = Len(cursor.items) + 1
             /\ pulls[Len(pulls)].res = "none"
             /\ result = Unwind(conts, Ok(V(Visitor.of, "", <<>>, cursor.items)))

\* a VecDeque of the longest stream, whose first two elements differ
C6_Witness ==
    /\ pc = "done"
    /\ Visitor = Vis("SeqVisitor", "VecDeque", 0)
    /\ cursor.failAt = 0
    /\ Len(cursor.items) = MaxLen
    /\ cursor.items[1] # cursor.items[2]
    /\ result = Ok(V("VecDeque", "", <<>>, cursor.items))
    /\ Len(pulls) = MaxLen + 1

\* C7: a pull that returned an error is the last pull made, the visitor has
\* returned, and what the decode returns is that error as the cursor gave it;
\* so a decode that returns a value met no failed pull.
C7_PullErrorPropagates ==
    /\ \A i \in DOMAIN pulls :
         pulls[i].res = "err"
         => /\ i = Len(pulls)
            /\ pc = "done"
            /\ result = Failed(pulls[i])
            /\ result.val = CursorError(cursor.failAt)
    /\ (pc = "done" /\ result.kind = "Ok") => \A i \in DOMAIN pulls : pulls[i].res # "err"

\* a map whose second pull for a value fails, after one entry was gathered
C7_Witness ==
    /\ pc = "done"
    /\ Visitor.name = "MapVisitor"
    /\ Len(acc) = 1
    /\ Len(pulls) = 4
    /\ pulls[4].op = "next_value"
    /\ pulls[4].res = "err"
    /\ result = Failed(pulls[4])

\* C8: on a map cursor the pulls alternate, first a key: a next_value comes
\* right after a next_key that returned a key, a next_key comes first or right
\* after a next_value, nothing follows a next_key that returned empty, and a
\* traversal that returns a value ended on a next_key that returned empty.
C8_KeyValueAlternate ==
    cursor.kind = "map"
    => /\ \A i \in DOMAIN pulls :
            /\ pulls[i].op \in {"next_key", "next_value"}
            /\ pulls[i].op = "next_value"
               => i > 1 /\ pulls[i - 1].op = "next_key" /\ pulls[i - 1].res = "some"
            /\ (pulls[i].op = "next_key" /\ i > 1)
               => pulls[i - 1].op = "next_value" /\ pulls[i - 1].res = "some"
            /\ (pulls[i].op = "next_key" /\ pulls[i].res = "none") => i = Len(pulls)
       /\ (pc = "done" /\ result.kind = "Ok")
          => /\ pulls # <<>>
             /\ pulls[Len(pulls)].op = "next_key"
             /\ pulls[Len(pulls)].res = "none"
       /\ (pc = "done" /\ pulls # <<>> /\ pulls[Len(pulls)].res = "none")
          => result.kind = "Ok"

\* the derived visitor went through a record of the most entries, key by value
C8_Witness ==
    /\ pc = "done"
    /\ Visitor.name = "Visitor"
    /\ Len(cursor.items) = MaxEntries
    /\ Len(pulls) = 2 * MaxEntries + 1
    /\ result.kind = "Ok"

\* the cursor as it was when the visitor was called, reporting size hint h
Rewound(h) == [cursor EXCEPT !.pos = 0, !.keys = 0, !.hint = h]

\* C9: once a collection visitor has returned, what it returned and the
\* pulls it made are those of the same call on the same stream under every
\* other size hint: none, one below, at, or above the number of elements.
C9_SizeHintIrrelevant ==
    /\ (pc = "done" /\ cursor.kind = "seq" /\ Visitor.name = "SeqVisitor")
       => \A h \in SizeHints :
            LET r == visit_seq_run(Visitor, ctx, Rewound(h)) IN
            /\ result = Unwind(conts, r.ret)
            /\ pulls = r.pulls
    /\ (pc = "done" /\ cursor.kind = "map" /\ Visitor.name = "MapVisitor")
       => \A h \in SizeHints :
            LET r == visit_map_run(Visitor, Rewound(h)) IN
            /\ result = Unwind(conts, r.ret)
            /\ pulls = r.pulls

\* a Vec decoded from more elements than the cursor's size hint announced
C9_Witness ==
    /\ pc = "done"
    /\ Visitor = Vis("SeqVisitor", "Vec", 0)
    /\ cursor.hint = <<HintMid>>
    /\ Len(cursor.items) > HintMid
    /\ cap = HintMid
    /\ result = Ok(V("Vec", "", <<>>, cursor.items))

\* C10: a tuple or array visitor of arity N >= 1 whose cursor holds k < N
\* elements and never fails returns an error built by invalid_length, after
\* k pulls that returned an element and one that returned empty.
C10_ShortSequenceRejected ==
    ( /\ pc = "done"
      /\ cursor.kind = "seq"
      /\ Visitor.name \in {"ArrayVisitor", "TupleVisitor"}
      /\ Visitor.len >= 1
      /\ cursor.failAt = 0
      /\ Len(cursor.items) < Visitor.len )
    => /\ result.kind = "Err"
       /\ result.calls = <<"invalid_length", "custom">>
       /\ ErrKind(result) = "invalid length: "
       /\ Len(pulls) = Len(cursor.items) + 1
       /\ \A i \in DOMAIN pulls : pulls[i].res = IF i < Len(pulls) THEN "some" ELSE "none"

\* a tuple of the largest arity, one element short
C10_Witness ==
    /\ pc = "done"
    /\ Visitor = Vis("TupleVisitor", "", MaxArity)
    /\ cursor.failAt = 0
    /\ Len(cursor.items) = MaxArity - 1
    /\ Len(pulls) = MaxArity
    /\ ErrKind(result) = "invalid length: "


\* C11: a tuple or array visitor that has returned a value has pulled every
\* element its cursor holds: it does not return Ok with an element left.
C11_NoExtraElementLeft ==
    ( /\ pc = "done"
      /\ cursor.kind = "seq"
      /\ Visitor.name \in {"ArrayVisitor", "TupleVisitor"}
      /\ result.kind = "Ok" )
    => \A i \in DOMAIN cursor.items : i <= Len(pulls) /\ pulls[i].val = cursor.items[i]


\* the values of the first n chunks of a stream, chunk after chunk
ChunkRuns(items, n) == [i \in 1..n |-> Run(i, 0, items[i].bits[2])]

\* the number of buffer calls so far that wrote values
Filled == IF Len(pulls) <= Len(cursor.items) THEN Len(pulls) ELSE Len(cursor.items)

\* C12: while BytesVisitor::visit_array_u8 reads a cursor that never fails,
\* every buffer call but the last made so far wrote values, the bytes gathered
\* are the values of the chunks written so far, in call order and nothing
\* else; it returns after the first call that reports 0, and returns those
\* bytes.
C12_ChunksConcatenated ==
    (cursor.kind = "array" /\ Visitor.name = "BytesVisitor" /\ cursor.failAt = 0)
    => /\ \A i \in DOMAIN pulls :
            /\ pulls[i].op = "buffer"
            /\ i < Len(pulls) => pulls[i].res = "some" /\ pulls[i].val.bits[2] > 0
       /\ acc = ChunkRuns(cursor.items, Filled)
       /\ pc = "done"
          => /\ Len(pulls) = Len(cursor.items) + 1
             /\ pulls[Len(pulls)].val.bits[2] = 0
             /\ result = Unwind(conts, Ok(V("Bytes", "array", <<>>,
                                           ChunkRuns(cursor.items, Len(cursor.items)))))

\* a full chunk, then one value written over the start of what the full chunk left
C12_Witness ==
    /\ pc = "done"
    /\ Visitor.name = "BytesVisitor"
    /\ cursor.kind = "array"
    /\ Len(cursor.items) = 2
    /\ cursor.items[1].bits[2] = BUF_SIZE
    /\ cursor.items[2].bits[2] = 1
    /\ buf = <<Run(2, 0, 1), Run(1, 1, BUF_SIZE - 1)>>
    /\ result = Ok(V("Bytes", "array", <<>>, <<Run(1, 0, BUF_SIZE), Run(2, 0, 1)>>))

\* the number of values the buffer calls so far reported
RECURSIVE Received(_)
Received(ps) ==
    IF ps = <<>> THEN 0
    ELSE (IF Head(ps).res = "some" THEN Head(ps).val.bits[2] ELSE 0) + Received(Tail(ps))

\* C13 as stated: what a visit_array_u8 holds besides its buffer stays within
\* the size of the buffer.
C13_RetainedWithinBuffer ==
    cursor.kind = "array" => Size(acc) <= Size(buf)

\* C13: the buffer of a visit_array_u8 keeps the size it was created with,
\* UuidVisitor holds nothing else, and BytesVisitor holds besides it exactly
\* the values received so far, the bytes it is to return.
C13_RetainedIsOutput ==
    cursor.kind = "array"
    => /\ Size(buf) = BufferLen(Visitor)
       /\ Visitor.name = "UuidVisitor" => acc = <<>>
       /\ Visitor.name = "BytesVisitor" => Size(acc) = Received(pulls)

\* BytesVisitor holding more bytes than its buffer has room for
C13_Witness ==
    /\ cursor.kind = "array"
    /\ Visitor.name = "BytesVisitor"
    /\ Size(buf) = BUF_SIZE
    /\ Size(acc) > BUF_SIZE

\* the counts ArrayAccess::buffer is documented to return for a buffer: `0..buffer.len()`
DocumentedCounts(b) == 0 .. (Size(b) - 1)

\* C14: when UuidVisitor::visit_array_u8 has returned a Uuid, the count its
\* buffer call reported is one of those documented for the buffer it passed.
C14_CountsInDocumentedRange ==
    ( /\ pc = "done"
      /\ cursor.kind = "array"
      /\ Visitor.name = "UuidVisitor"
      /\ result.kind = "Ok" )
    => \A i \in DOMAIN pulls : pulls[i].val.bits[2] \in DocumentedCounts(buf)


\* C15: whichever callback the decoder invokes on IgnoredAny, and whatever
\* the cursor given with it holds, if no pull fails the answer is
\* Ok(IgnoredAny).
C15_IgnoredAnyAcceptsAll ==
    ( /\ pc = "done"
      /\ Visitor.name = "IgnoredAny"
      /\ \A i \in DOMAIN pulls : pulls[i].res # "err" )
    => /\ result = Unwind(conts, Ok(IgnoredAnyV))
       /\ ErrKind(result) # "invalid type: "

\* C16: the derived record visitor returns to its caller, with a record or
\* with an error, whatever keys the map holds: it never panics.
C16_UnknownKeyDoesNotAbort ==
    (pc = "done" /\ Visitor.name = "Visitor") => result.kind \in {"Ok", "Err"}

\* the key that names each field of struct Foo: a, b, c (for _c) and d_e
NamingKeys == << <<Ch.a>>, <<Ch.b>>, <<Ch.c>>, <<Ch.d, Ch.underscore, Ch.e>> >>

\* the value of the last entry of a map whose key is k, None if there is none
LastValueFor(items, k) ==
    LET at == { i \in DOMAIN items : items[i].items[1].bits = k } IN
    IF at = {} THEN None
    ELSE items[CHOOSE i \in at : \A j \in at : j <= i].items[2]

\* C17: from a map that never fails and whose keys are among a, b, c and
\* d_e, the derived visitor of Foo returns a record in which each field
\* holds the value given with the key that names it.
C17_KeysSelectNamedFields ==
    ( /\ pc = "done"
      /\ Visitor.name = "Visitor"
      /\ cursor.kind = "map"
      /\ cursor.failAt = 0
      /\ \A i \in DOMAIN cursor.items : cursor.items[i].items[1].bits \in Range(NamingKeys) )
    => /\ result.kind = "Ok"
       /\ \A f \in DOMAIN NamingKeys :
            result.val.items[f] = LastValueFor(cursor.items, NamingKeys[f])

CallsOf(op) == { i \in DOMAIN enc.calls : enc.calls[i].op = op }

\* every call but the last made so far succeeded: nothing follows a failure
NothingAfterFailure == \A i \in DOMAIN enc.calls : i < Len(enc.calls) => enc.calls[i].res = "ok"

\* an encode that has returned: the error of its last call if that failed,
\* and otherwise what end returned
ReturnsLastCall ==
    pc = "encoded"
    => LET c == enc.calls[Len(enc.calls)] IN
       IF c.res = "err" THEN result = Failed(c) /\ result.val = EncoderError(enc.failAt)
       ELSE c.op = "end" /\ result = Ok(c.val)

\* C19: the calls of a collect_seq are encode_seq, then encode_element for
\* the items in iteration order, then end after the last item and nothing
\* after end; a failed call is the last call, and its error is what
\* collect_seq returns; otherwise it returns what end returned.
C19_CollectSeqProtocol ==
    enc.kind = "seq"
    => /\ CallsOf("encode_seq") = {1}
       /\ \A i \in DOMAIN enc.calls :
            /\ i > 1 => enc.calls[i].op \in {"encode_element", "end"}
            /\ enc.calls[i].op = "encode_element"
               => i - 1 <= Len(enc.items) /\ enc.calls[i].arg = enc.items[i - 1]
            /\ enc.calls[i].op = "end" => i = Len(enc.items) + 2 /\ i = Len(enc.calls)
       /\ NothingAfterFailure
       /\ ReturnsLastCall

\* a collect_seq of the longest iterator, through to what end returned
C19_Witness ==
    /\ pc = "encoded"
    /\ enc.kind = "seq"
    /\ Len(enc.items) = MaxLen
    /\ enc.items[1] # enc.items[2]
    /\ Len(enc.calls) = MaxLen + 2
    /\ result = Ok(Output(MaxLen + 2))

\* C20: the calls of a collect_map are encode_map, then for each pair in
\* iteration order its encode_key and, right after it, its encode_value,
\* then end after the last pair; an encode_value follows an encode_key that
\* succeeded, a failed call is the last call and its error is returned.
C20_CollectMapProtocol ==
    enc.kind = "map"
    => /\ CallsOf("encode_map") = {1}
       /\ \A i \in DOMAIN enc.calls :
            /\ i > 1 => enc.calls[i].op \in {"encode_key", "encode_value", "end"}
            /\ enc.calls[i].op = "encode_key"
               => /\ i % 2 = 0
                  /\ i \div 2 <= Len(enc.items)
                  /\ enc.calls[i].arg = enc.items[i \div 2].items[1]
            /\ enc.calls[i].op = "encode_value"
               => /\ enc.calls[i - 1].op = "encode_key"
                  /\ enc.calls[i - 1].res = "ok"
                  /\ enc.calls[i - 1].arg = enc.items[(i - 1) \div 2].items[1]
                  /\ enc.calls[i].arg = enc.items[(i - 1) \div 2].items[2]
            /\ (enc.calls[i].op = "encode_key" /\ enc.calls[i].res = "ok" /\ i < Len(enc.calls))
               => enc.calls[i + 1].op = "encode_value"
            /\ enc.calls[i].op = "end" => i = 2 * Len(enc.items) + 2 /\ i = Len(enc.calls)
       /\ NothingAfterFailure
       /\ ReturnsLastCall

\* a collect_map whose second encode_key fails, after one whole pair
C20_Witness ==
    /\ pc = "encoded"
    /\ enc.kind = "map"
    /\ Len(enc.items) = MaxEntries
    /\ enc.failAt = 4
    /\ Len(enc.calls) = 4
    /\ enc.calls[3].op = "encode_value"
    /\ enc.calls[4].op = "encode_key"
    /\ result = Failed(enc.calls[4])

\* C21: the calls of a tuple's or a fixed array's to_stream are
\* encode_tuple(N) with N the arity, then encode_element for the elements in
\* index order, then end once and last; when it returns Ok, the elements
\* pushed are as many as the length declared ([T; 0]: encode_tuple(0), end).
C21_TupleProtocol ==
    enc.kind \in {"tuple", "array"}
    => /\ CallsOf("encode_tuple") = {1}
       /\ enc.calls[1].arg = LenArg(<<Len(enc.items)>>)
       /\ \A i \in DOMAIN enc.calls :
            /\ i > 1 => enc.calls[i].op \in {"encode_element", "end"}
            /\ enc.calls[i].op = "encode_element"
               => i - 1 <= Len(enc.items) /\ enc.calls[i].arg = enc.items[i - 1]
            /\ enc.calls[i].op = "end" => i = Len(enc.items) + 2 /\ i = Len(enc.calls)
       /\ NothingAfterFailure
       /\ (pc = "encoded" /\ result.kind = "Ok")
          => /\ Cardinality(CallsOf("encode_element")) = enc.calls[1].arg.bits[1]
             /\ Cardinality(CallsOf("end")) = 1
             /\ result = Ok(enc.calls[Len(enc.calls)].val)

\* a tuple of the largest arity encoded through to what end returned
C21_Witness ==
    /\ pc = "encoded"
    /\ enc.kind = "tuple"
    /\ Len(enc.items) = MaxLen
    /\ enc.items[1] # enc.items[2]
    /\ Len(enc.calls) = MaxLen + 2
    /\ result = Ok(Output(MaxLen + 2))

\* [T; 0] encoded: encode_tuple(0), then end, and no element
C21_WitnessEmpty ==
    /\ pc = "encoded"
    /\ enc.kind = "array"
    /\ enc.items = <<>>
    /\ Len(enc.calls) = 2
    /\ enc.calls[1] = [op |-> "encode_tuple", arg |-> LenArg(<<0>>), res |-> "ok", val |-> Unit]
    /\ enc.calls[2].op = "end"
    /\ result.kind = "Ok"

\* C22: what the built-in to_stream of a bool, an integer of any width, a
\* String, an Option, a Vec, a fixed array or a tuple encoded, decoded by
\* from_stream from a format that kept every call, is the value encoded.
C22_RoundTrip == pc = "decoded" => result = Ok(Original(enc))

\* the Vec [1, 2, 3] of i32 went through encode_seq(Some(3)), three
\* encode_element calls and end, and came back
C22_Witness ==
    /\ pc = "decoded"
    /\ enc.kind = "seq"
    /\ enc.items = <<I32(1), I32(2), I32(3)>>
    /\ enc.calls[1].arg = LenArg(<<3>>)
    /\ Len(enc.calls) = 5
    /\ result = Ok(V("Vec", "", <<>>, <<I32(1), I32(2), I32(3)>>))

\* a negative isize of four bytes went through encode_i64 and came back
C22_WitnessIsize ==
    /\ pc = "decoded"
    /\ enc.items = <<IntV("isize", <<255, 255, 255, 255>>)>>
    /\ enc.calls[1].op = "encode_i64"
    /\ enc.calls[1].arg = IntV("i64", <<255, 255, 255, 255, 255, 255, 255, 255>>)
    /\ result = Ok(IntV("isize", <<255, 255, 255, 255>>))

\* C23: the context given to the from_stream of an Option<T> is the context
\* its visit_some gives to T::from_stream, and the context given to the
\* from_stream of a sequence collection or of a fixed array is the context
\* of every next_element call its visitor makes.
C23_ContextForwarded ==
    /\ \A i \in DOMAIN hints :
         (i > 1 /\ hints[i - 1].ty.n = "Option") => hints[i].ctx = hints[i - 1].ctx
    /\ (ty # <<>> /\ Head(ty).n \in SeqTypes \cup {"Array"})
       => \A i \in DOMAIN pulls :
            /\ pulls[i].op = "next_element"
            /\ pulls[i].ctx = hints[Len(hints)].ctx
            /\ pulls[i].ctx = hints[1].ctx

\* an Option<Vec<T>> given a context other than (): visit_some handed it to
\* Vec's from_stream, whose visitor pulled two elements with it
C23_Witness ==
    /\ pc = "done"
    /\ Len(hints) = 2
    /\ hints[1] = HintCall(T("Option", 0), "cx", Hint("decode_option", <<>>))
    /\ hints[2] = HintCall(T("Vec", 0), "cx", Hint("decode_seq", <<>>))
    /\ Len(pulls) = 3
    /\ pulls[1].res = "some" /\ pulls[2].res = "some" /\ pulls[3].res = "none"
    /\ \A i \in 1..3 : pulls[i].ctx = "cx"
    /\ result.kind = "Ok"

\* C24: of the calls in progress on a decoder and its cursor at most one
\* awaits the format's answer, and it is the innermost: every call around it
\* is a hint call whose visitor made it and awaits it, so a visitor makes a
\* pull or a nested from_stream only when the one before has returned, and
\* nothing is in progress any more when the first from_stream has returned.
C24_OneCallOutstanding ==
    /\ Cardinality({ i \in DOMAIN active : active[i].at = "format" }) <= 1
    /\ \A i \in DOMAIN active :
         i < Len(active) => active[i].at = "visitor" /\ active[i].op \notin PullOps
    /\ Cardinality({ i \in DOMAIN active : active[i].op \in PullOps }) <= 1
    /\ pc = "done" => active = <<>>
    /\ pc = "hinted" => Awaited(active, hints[Len(hints)].hint.hint)

\* inside an Option<Vec<T>>: decode_option and the nested decode_seq are in
\* progress, their visitors running, and the second next_element is awaited
C24_Witness ==
    /\ pc = "next_element"
    /\ Len(pulls) = 1
    /\ active = << [op |-> "decode_option", at |-> "visitor"],
                   [op |-> "decode_seq", at |-> "visitor"],
                   Issued("next_element") >>

\* C25: each expect_next of UuidVisitor::visit_seq makes one next_element
\* call; it yields the element the call returned, and the visitor stops with
\* the call's own error when the call failed, and with an error built by
\* Error::custom, and no value, when the sequence had ended.
C25_ExpectNext ==
    (ty # <<>> /\ Visitor.name = "UuidVisitor" /\ call.cb = "visit_seq")
    => /\ Len(pulls) <= 4
       /\ \A i \in DOMAIN pulls :
            /\ pulls[i].op = "next_element"
            /\ i < Len(pulls) => pulls[i].res = "some"
            /\ pulls[i].res = "some" => Len(acc) >= i /\ acc[i] = pulls[i].val
       /\ Len(acc) = Cardinality({ i \in DOMAIN pulls : pulls[i].res = "some" })
       /\ pc = "done"
          => LET p == pulls[Len(pulls)] IN
             CASE p.res = "err" -> result = Failed(p) /\ result.val = CursorError(Len(pulls))
               [] p.res = "none" ->
                    /\ result.kind = "Err"
                    /\ result.calls = <<"custom">>
                    /\ result.val = V("custom", "", <<>>, <<Str("expected sequence element is missing")>>)
               [] OTHER -> Len(pulls) = 4 /\ result = Ok(V("Uuid", "from_fields", <<>>, acc))

\* the second expect_next of a Uuid met a next_element that failed
C25_Witness ==
    /\ pc = "done"
    /\ Visitor.name = "UuidVisitor"
    /\ call.cb = "visit_seq"
    /\ Len(pulls) = 2
    /\ pulls[1].res = "some"
    /\ pulls[2].res = "err"
    /\ result = Failed(pulls[2])

\* the third expect_next of a Uuid met the end of the sequence
C25_WitnessMissing ==
    /\ pc = "done"
    /\ Visitor.name = "UuidVisitor"
    /\ call.cb = "visit_seq"
    /\ Len(pulls) = 3
    /\ pulls[3].res = "none"
    /\ result.kind = "Err"

\* C26: the length an invalid_length raised by a tuple or fixed-array
\* visitor carries is the number of elements it found in the sequence, that
\* is the number of pulls that returned an element; for [T; 0] meeting an
\* element that is at least 1.
C26_LengthIsCountFound ==
    ( /\ pc = "done"
      /\ cursor.kind = "seq"
      /\ Visitor.name \in {"ArrayVisitor", "TupleVisitor"}
      /\ ErrKind(result) = "invalid length: " )
    => ErrFound(result) = DisplayLen(Cardinality({ i \in DOMAIN pulls : pulls[i].res = "some" }))

\* C27: the length collect_seq and collect_map declare is Some(n) only when
\* the lower and the upper bound of the iterator's size_hint are both n, and
\* None otherwise; when Some(n) was declared and end has returned Ok, n
\* encode_element calls (n encode_key and n encode_value calls, one pair per
\* encode_entry) went before that end.
C27_DeclaredLengthExact ==
    enc.kind \in {"seq", "map"}
    => LET declared == enc.calls[1].arg.bits
           exact == enc.bounds.hi # <<>> /\ enc.bounds.hi[1] = enc.bounds.lo
       IN  /\ enc.calls[1].op \in {"encode_seq", "encode_map"}
           /\ declared # <<>> => exact /\ declared = <<enc.bounds.lo>>
           /\ ~exact => declared = <<>>
           /\ exact => declared # <<>>
           /\ (declared # <<>> /\ pc \in {"encoded", "decoded"} /\ enc.calls[Len(enc.calls)].res = "ok")
              => /\ enc.calls[Len(enc.calls)].op = "end"
                 /\ IF enc.kind = "seq"
                    THEN CallsOf("encode_element") = 2..(declared[1] + 1)
                    ELSE /\ CallsOf("encode_key") = { 2 * k : k \in 1..declared[1] }
                         /\ CallsOf("encode_value") = { 2 * k + 1 : k \in 1..declared[1] }

\* a collect_map of two pairs that declared Some(2) and ended well
C27_Witness ==
    /\ pc = "encoded"
    /\ enc.kind = "map"
    /\ enc.bounds = SizeBounds(MaxEntries, <<MaxEntries>>)
    /\ enc.calls[1].arg = LenArg(<<MaxEntries>>)
    /\ Cardinality(CallsOf("encode_key")) = MaxEntries
    /\ result.kind = "Ok"

\* a collect_seq whose iterator gave no upper bound declared None
C27_WitnessNone ==
    /\ pc = "encoded"
    /\ enc.kind = "seq"
    /\ Len(enc.items) = 2
    /\ enc.bounds = SizeBounds(0, <<>>)
    /\ enc.calls[1].arg = LenArg(<<>>)
    /\ result.kind = "Ok"

\* the collections whose visitor reserves room from the cursor's size hint
ReservingTypes == {"BinaryHeap", "HashSet", "VecDeque", "Vec", "HashMap", "SmallVec"}

\* C28: no sequence or map visitor reserves more than 4096 slots on a
\* cursor's size hint: a visitor that reserves room, SmallVec's included,
\* reserves min(hint, 4096), and 0 when the cursor gives no hint.
C28_ReservedCapacityCapped ==
    /\ cap <= CautiousCap
    /\ (ty # <<>> /\ cursor.kind \in {"seq", "map"} /\ Visitor.name \in {"SeqVisitor", "MapVisitor"}
          /\ Visitor.of \in ReservingTypes)
       => cap = IF cursor.hint = <<>> THEN 0
                ELSE IF cursor.hint[1] < CautiousCap THEN cursor.hint[1] ELSE CautiousCap

\* IgnoredAny::visit_seq and visit_map that returned from a cursor that
\* never failed pulled every element or entry and the end after it, and
\* kept nothing
IgnoredAnyDrains ==
    (pc = "done" /\ Visitor.name = "IgnoredAny" /\ cursor.kind \in {"seq", "map"} /\ cursor.failAt = 0)
    => /\ cursor.pos = (IF cursor.kind = "seq" THEN 1 ELSE 2) * Len(cursor.items) + 1
       /\ Len(pulls) = cursor.pos
       /\ \A i \in DOMAIN pulls : pulls[i].res = IF i < Len(pulls) THEN "some" ELSE "none"
       /\ acc = <<>>
       /\ result = Unwind(conts, Ok(IgnoredAnyV))

\* C29: a visitor that was given a cursor, which ends after finitely many
\* pulls, eventually returns; and the drain of IgnoredAny pulls every
\* remaining element and keeps none.
C29_TraversalReturns ==
    /\ (cursor.kind # "none") ~> (pc = "done")
    /\ []IgnoredAnyDrains

\* IgnoredAny drained a sequence of the greatest length and returned
C29_Witness ==
    /\ pc = "done"
    /\ Visitor.name = "IgnoredAny"
    /\ cursor.kind = "seq"
    /\ cursor.failAt = 0
    /\ Len(cursor.items) = MaxLen
    /\ Len(pulls) = MaxLen + 1
    /\ acc = <<>>
    /\ result = Ok(IgnoredAnyV)

\* a result under d layers of Option: Some around a value, an error as it is
RECURSIVE InSome(_, _)
InSome(r, d) == IF d = 0 \/ r.kind # "Ok" THEN r ELSE InSome(Ok(Some(r.val)), d - 1)

\* the from_stream of an Option<T> that has returned: on visit_none and
\* visit_unit it gave None, on visit_some what T::from_stream gave, on the
\* same decoder and with the same context, Some(v) for a value v and T's
\* error as it is, and on any other callback invalid_type
OptionDecoded ==
    ( /\ pc = "done"
      /\ hints[1].ty.n = "Option"
      /\ \A i \in DOMAIN hints : i < Len(hints) => hints[i].ty.n = "Option" )
    => LET d == Len(hints) - 1 IN
       /\ \A i \in DOMAIN hints : hints[i].ctx = hints[1].ctx
       /\ Head(ty) = hints[Len(hints)].ty
       /\ IF Head(ty).n = "Option"
          THEN /\ call.cb # "visit_some"
               /\ IF call.cb \in {"visit_none", "visit_unit"}
                  THEN result = InSome(Ok(None), d)
                  ELSE /\ result.kind = "Err"
                       /\ result.calls = <<"invalid_type", "custom">>
                       /\ ErrKind(result) = "invalid type: "
                       /\ ErrExpected(result) = Display(expecting(Visitor))
          ELSE /\ call.cb \in ValueCallbacks
                  => result = InSome(Unwind(ContsOf(Head(ty)), Visit(Visitor, call.cb, call.arg, TRUE)), d)
               /\ (call.cb = "visit_seq" /\ cursor.kind = "seq")
                  => result = InSome(visit_seq_run(Visitor, ctx, [cursor EXCEPT !.pos = 0]).ret, d)
               /\ result.kind = "Ok" => result.val.tag = "Some"

\* the to_stream of an Option makes one call, encode_none() for None and
\* encode_some(value) for Some(value), and returns what the call returned
OptionEncoded ==
    (enc.kind = "value" /\ enc.items[1].tag \in {"None", "Some"})
    => /\ Len(enc.calls) = 1
       /\ enc.calls[1].op = IF enc.items[1] = None THEN "encode_none" ELSE "encode_some"
       /\ enc.calls[1].arg = IF enc.items[1] = None THEN Unit ELSE enc.items[1].items[1]
       /\ pc = "encoded"
          => result = IF enc.calls[1].res = "err" THEN Failed(enc.calls[1]) ELSE Ok(enc.calls[1].val)

\* C30: Option<T> decodes visit_none and visit_unit to None, visit_some to
\* Some of what T::from_stream returns on the same decoder (T's error when
\* it fails) and rejects every other callback with invalid_type; it encodes
\* Some(value) by encode_some(value), None by encode_none(), and makes no
\* other call.
C30_OptionCodec == OptionDecoded /\ OptionEncoded

\* an Option<i32> met visit_some, and the nested from_stream visit_i32(5)
C30_Witness ==
    /\ pc = "done"
    /\ Len(hints) = 2
    /\ hints[1].ty = T("Option", 0)
    /\ hints[2] = HintCall(T("i32", 0), UnitContext, Hint("decode_i32", <<>>))
    /\ call = Call("visit_i32", IntV("i32", <<5, 0, 0, 0>>))
    /\ result = Ok(Some(IntV("i32", <<5, 0, 0, 0>>)))

\* Some("a") was encoded by the single call encode_some("a")
C30_WitnessEncoded ==
    /\ pc = "encoded"
    /\ enc.items = <<Some(StringV(<<Ch.a>>))>>
    /\ enc.calls = << [op |-> "encode_some", arg |-> StringV(<<Ch.a>>), res |-> "ok", val |-> Output(1)] >>
    /\ result = Ok(Output(1))

\* an Option met visit_bool, which OptionVisitor does not implement
C30_WitnessRejected ==
    /\ pc = "done"
    /\ hints = <<HintCall(T("Option", 0), UnitContext, Hint("decode_option", <<>>))>>
    /\ call.cb = "visit_bool"
    /\ ErrKind(result) = "invalid type: "

=============================================================================
